---------------------------- MODULE Spec2Model ----------------------------
(***************************************************************************)
(* Audit Analysis Engine of the RPA Auditor Bot (src/main.py).             *)
(*                                                                         *)
(* Text is modelled as a sequence of one-character strings, so that        *)
(* str.strip, str.lower, str.find and the ordering used by sorted() are    *)
(* computed and not assumed.  A pandas table is a record                   *)
(*   [columns |-> sequence of column names, rows |-> sequence of rows]     *)
(* where a row is a sequence of cells aligned with columns and a cell is   *)
(* either a text or NaN (a missing value).  Python's None is the empty     *)
(* sequence <<>> and a present optional value x is <<x>>.                  *)
(***************************************************************************)
EXTENDS Integers, Sequences, FiniteSets, TLC

VARIABLES
    df,                     \* the table handed to analyze_file
    file_name,              \* its file name
    agency,                 \* the agency string handed to analyze_file
    utcnow,                 \* the day datetime.utcnow() returns
    analysis,               \* <<>> or <<FileAnalysis>>: what analyze_file returned
    audit_results,          \* list of FileAnalysis handed to the fold step
    paired_results,         \* result of build_pair_results
    reconciliation_summary, \* result of build_reconciliation_summary
    mask_result,            \* <<>> or <<what build_failure_mask returned>>
    run_days,               \* the day datetime.utcnow() returned in each analysis of audit_results
    resolved_config,        \* <<>> or <<what resolve_agency_config returned>>
    folder_ids,             \* the folder ids handed to run_batch_audit
    listings,               \* per folder id: what the Drive service returns for it
    folder_index,           \* position of run_batch_audit's loop in folder_ids
    folder_id,              \* <<>> or <<the folder run_audit was called for>>
    files,                  \* run_audit: the listing fetch_order_files returned
    calls,                  \* the calls made to the repository and the notifiers, in order
    audit_runs,             \* rows of the audit_runs table
    audit_batches,          \* rows of the audit_batches table
    raised,                 \* <<>> or <<the exception that left run_audit or _persist_run>>
    batch_summary,          \* run_batch_audit: the entries appended so far
    requests,               \* the requests handed to ingest_runs_bulk
    request_index,          \* position of ingest_runs_bulk's loop in requests
    bulk_results,           \* ingest_runs_bulk: the results appended so far
    runs,                   \* documents of the Firestore collection "runs"
    pc                      \* position of the run

\* The state of the audit service around the analysis of one file
service_vars ==
    <<folder_ids, listings, folder_index, folder_id, files, calls, audit_runs,
      audit_batches, raised, batch_summary, requests, request_index, bulk_results, runs>>

vars == <<df, file_name, agency, utcnow, analysis, audit_results, paired_results,
          reconciliation_summary, mask_result, run_days, resolved_config, service_vars, pc>>

\* No audit and no ingestion is under way and nothing is stored
ServiceIdle ==
    /\ folder_ids = <<>>
    /\ listings = <<>>
    /\ folder_index = 0
    /\ folder_id = <<>>
    /\ files = <<>>
    /\ calls = <<>>
    /\ audit_runs = <<>>
    /\ audit_batches = <<>>
    /\ raised = <<>>
    /\ batch_summary = <<>>
    /\ requests = <<>>
    /\ request_index = 0
    /\ bulk_results = <<>>
    /\ runs = <<>>

----------------------------------------------------------------------------
(* Text primitives                                                         *)

\* Characters of the model's alphabet in ascending code-point order.
CodeOrder ==
    <<"\t", "\n", " ", "%", "-", ".",
      "0", "1", "2", "3", "4", "5", "6", "7", "8", "9",
      "A", "B", "C", "D", "E", "F", "G", "H", "I", "J", "K", "L", "M",
      "N", "O", "P", "Q", "R", "S", "T", "U", "V", "W", "X", "Y", "Z", "_",
      "a", "b", "c", "d", "e", "f", "g", "h", "i", "j", "k", "l", "m",
      "n", "o", "p", "q", "r", "s", "t", "u", "v", "w", "x", "y", "z">>

\* The position of each character of one list in another list of equal length
Translate(from, to) ==
    [c \in {from[i] : i \in 1..Len(from)} |-> to[CHOOSE i \in 1..Len(from) : from[i] = c]]

Positions(s) == [i \in 1..Len(s) |-> i]

CodePoint == Translate(CodeOrder, Positions(CodeOrder))

Ord(c) == CodePoint[c]

UpperChars == <<"A", "B", "C", "D", "E", "F", "G", "H", "I", "J", "K", "L", "M",
                "N", "O", "P", "Q", "R", "S", "T", "U", "V", "W", "X", "Y", "Z">>
LowerChars == <<"a", "b", "c", "d", "e", "f", "g", "h", "i", "j", "k", "l", "m",
                "n", "o", "p", "q", "r", "s", "t", "u", "v", "w", "x", "y", "z">>

LowerOf == Translate(UpperChars, LowerChars)

LowerChar(c) == IF c \in DOMAIN LowerOf THEN LowerOf[c] ELSE c

\* str.lower()
Lower(s) == [i \in 1..Len(s) |-> LowerChar(s[i])]

IsSpace(c) == c \in {" ", "\t", "\n", "\r"}

RECURSIVE LStrip(_)
LStrip(s) == IF s # <<>> /\ IsSpace(Head(s)) THEN LStrip(Tail(s)) ELSE s

RECURSIVE RStrip(_)
RStrip(s) ==
    IF s # <<>> /\ IsSpace(s[Len(s)]) THEN RStrip(SubSeq(s, 1, Len(s) - 1)) ELSE s

\* str.strip()
Strip(s) == RStrip(LStrip(s))

\* str.find(needle) != -1 / the substring test `needle in s`
Contains(s, needle) ==
    \E i \in 1..(Len(s) - Len(needle) + 1) :
        SubSeq(s, i, i + Len(needle) - 1) = needle

\* str.find(needle): 1-based index of the first occurrence, 0 when absent
Find(s, needle) ==
    IF Contains(s, needle)
    THEN CHOOSE i \in 1..(Len(s) - Len(needle) + 1) :
            /\ SubSeq(s, i, i + Len(needle) - 1) = needle
            /\ \A j \in 1..(i - 1) : SubSeq(s, j, j + Len(needle) - 1) # needle
    ELSE 0

\* Python's str ordering: lexicographic by code point, a proper prefix first.
StrLess(a, b) ==
    \E i \in 1..(Len(b)) :
        /\ i <= Len(a) + 1
        /\ \A j \in 1..(i - 1) : a[j] = b[j]
        /\ (i = Len(a) + 1 \/ (i <= Len(a) /\ Ord(a[i]) < Ord(b[i])))

\* sorted(S) for a set of texts
RECURSIVE Sorted(_)
Sorted(S) ==
    IF S = {} THEN <<>>
    ELSE LET m == CHOOSE x \in S : \A y \in S \ {x} : StrLess(x, y)
         IN  <<m>> \o Sorted(S \ {m})

\* Elements of a sequence as a set
Range(s) == {s[i] : i \in 1..Len(s)}

\* pandas Series.unique() / list(dict.fromkeys(xs)): first-seen order, no duplicates
RECURSIVE Dedupe(_)
Dedupe(s) ==
    IF s = <<>> THEN <<>>
    ELSE LET front == Dedupe(SubSeq(s, 1, Len(s) - 1))
             last == s[Len(s)]
         IN  IF last \in Range(front) THEN front ELSE Append(front, last)

\* Decimal digits of a natural number
RECURSIVE Digits(_)
Digits(n) ==
    IF n < 10 THEN <<CodeOrder[Ord("0") + n]>>
    ELSE Append(Digits(n \div 10), CodeOrder[Ord("0") + (n % 10)])

\* A missing cell (NaN / None in a pandas column); no text equals it.
NaN == <<"NaN">>

----------------------------------------------------------------------------
(* Configuration                                                           *)

DEFAULT_FAILURE_KEYWORDS ==
    << <<"n","o","t"," ","v","a","l","i","d">>,
       <<"f","a","i","l","e","d">>,
       <<"e","r","r","o","r">>,
       <<"m","a","n","d","a","t","o","r","y">>,
       <<"m","i","s","s","i","n","g">> >>

DEFAULT_STATUS_COLUMNS ==
    <<"Remarks", "Sent To Physician Status", "WAV Document Upload Status",
      "Signed By Physician Status", "Uploaded Signed Order Status",
      "Order Upload Status">>

SIGNATURE_COLUMN == "Signed By Physician Date"
SENT_TO_PHYSICIAN_COLUMN == "Sent To Physician Date"
IDENTIFIER_COLUMNS == <<"OrderId", "Order Number", "Document Id">>

DefaultConfig ==
    [failure_keywords |-> DEFAULT_FAILURE_KEYWORDS,
     status_columns |-> DEFAULT_STATUS_COLUMNS]

\* The registry, keyed by lower-case agency name.
AGENCY_CONFIG ==
    [k \in { <<"a","x","x","e","s","s">>, <<"k","i","n","n","s","e","r">> } |->
        IF k = <<"a","x","x","e","s","s">>
        THEN [failure_keywords |->
                 DEFAULT_FAILURE_KEYWORDS \o
                    << <<"n","o"," ","p","a","t","i","e","n","t">>,
                       <<"n","o","n"," ","d","a">> >>,
              status_columns |-> DEFAULT_STATUS_COLUMNS]
        ELSE [failure_keywords |-> DEFAULT_FAILURE_KEYWORDS,
              status_columns |-> DEFAULT_STATUS_COLUMNS \o <<"Order Upload Status">>]]

\* Faulty variant: the agency name is looked up as written.
resolve_agency_config_as_written(a) ==
    IF a \in DOMAIN AGENCY_CONFIG THEN AGENCY_CONFIG[a] ELSE DefaultConfig

resolve_agency_config(a) ==
    IF Lower(a) \in DOMAIN AGENCY_CONFIG THEN AGENCY_CONFIG[Lower(a)] ELSE DefaultConfig

----------------------------------------------------------------------------
(* Table access                                                            *)

HasColumn(t, c) == c \in Range(t.columns)

ColIndex(t, c) == CHOOSE i \in 1..Len(t.columns) : t.columns[i] = c

\* df[c] as a sequence of cells, one per row
Column(t, c) == [r \in 1..Len(t.rows) |-> t.rows[r][ColIndex(t, c)]]

\* df.empty: either axis has length 0
IsEmptyFrame(t) == Len(t.rows) = 0 \/ Len(t.columns) = 0

\* fillna("").astype(str) of one cell
FillNa(cell) == IF cell = NaN THEN <<>> ELSE cell

\* Keep the elements of a sequence that satisfy Test
RECURSIVE SelectWhere(_, _)
SelectWhere(s, keep) ==
    IF s = <<>> THEN <<>>
    ELSE LET front == SelectWhere(SubSeq(s, 1, Len(s) - 1),
                                  SubSeq(keep, 1, Len(s) - 1))
         IN  IF keep[Len(s)] THEN Append(front, s[Len(s)]) ELSE front

----------------------------------------------------------------------------
(* Identifier Extractor                                                    *)

\* First candidate column present in the schema, <<>> when there is none.
FirstIdentifierColumn(t) ==
    LET present == {i \in 1..Len(IDENTIFIER_COLUMNS) : HasColumn(t, IDENTIFIER_COLUMNS[i])}
    IN  IF present = {} THEN <<>>
        ELSE <<IDENTIFIER_COLUMNS[CHOOSE i \in present : \A j \in present : i <= j]>>

\* Faulty variant: the union of the values of every candidate column present.
extract_order_identifiers_union(t) ==
    UNION {{Strip(Column(t, IDENTIFIER_COLUMNS[i])[r]) :
               r \in {q \in 1..Len(t.rows) : Column(t, IDENTIFIER_COLUMNS[i])[q] # NaN}} :
           i \in {k \in 1..Len(IDENTIFIER_COLUMNS) : HasColumn(t, IDENTIFIER_COLUMNS[k])}}

\* set(df[column].dropna().astype(str).str.strip())
extract_order_identifiers(t) ==
    IF FirstIdentifierColumn(t) = <<>> THEN {}
    ELSE LET col == Column(t, FirstIdentifierColumn(t)[1])
         IN  {Strip(col[r]) : r \in {q \in 1..Len(col) : col[q] # NaN}}

----------------------------------------------------------------------------
(* Column Matcher                                                          *)

\* compile_failure_pattern(tuple(sorted(set(keywords)))): the alternation of the
\* escaped keywords, as the sorted duplicate-free keyword list.
compile_failure_pattern(keywords) == Sorted(Range(keywords))

\* re.search(pattern, text) under re.IGNORECASE; the empty alternation is the
\* empty regular expression, which matches every text.
PatternSearch(pattern, text) ==
    IF pattern = <<>> THEN TRUE
    ELSE LET folded == Lower(text)
         IN  \E i \in 1..Len(pattern) : Contains(folded, Lower(pattern[i]))

RECURSIVE Join(_, _)
Join(parts, sep) ==
    IF parts = <<>> THEN <<>>
    ELSE IF Len(parts) = 1 THEN parts[1]
    ELSE parts[1] \o sep \o Join(Tail(parts), sep)

\* df.fillna("").astype(str).agg(" ".join, axis=1) for row r
RowText(t, r) == Join([i \in 1..Len(t.columns) |-> FillNa(t.rows[r][i])], <<" ">>)

\* status columns present in the table, in rule order
InspectedColumns(t, status_columns) ==
    SelectWhere(status_columns,
                [i \in 1..Len(status_columns) |-> HasColumn(t, status_columns[i])])

\* Faulty variant: the whole-row text is not searched.
RowMaskStatusColumnsOnly(t, pattern, inspected) ==
    [r \in 1..Len(t.rows) |->
        \E i \in 1..Len(inspected) :
            PatternSearch(pattern, FillNa(t.rows[r][ColIndex(t, inspected[i])]))]

\* The mask of lines 424-435: a status column that matches, or the joined row
RowMask(t, pattern, inspected) ==
    [r \in 1..Len(t.rows) |->
        \/ \E i \in 1..Len(inspected) :
              PatternSearch(pattern, FillNa(t.rows[r][ColIndex(t, inspected[i])]))
        \/ PatternSearch(pattern, RowText(t, r))]

MaskResult(mask, inspected, pattern) ==
    [mask |-> mask, inspected_columns |-> inspected, pattern |-> pattern]

build_failure_mask(t, keywords, status_columns) ==
    IF IsEmptyFrame(t)
    THEN MaskResult(<<>>, <<>>, compile_failure_pattern(keywords))
    ELSE MaskResult(RowMask(t, compile_failure_pattern(keywords),
                            InspectedColumns(t, status_columns)),
                    InspectedColumns(t, status_columns),
                    compile_failure_pattern(keywords))

----------------------------------------------------------------------------
(* SLA Calculator                                                          *)

IsDigit(c) == c \in {"0", "1", "2", "3", "4", "5", "6", "7", "8", "9"}

RECURSIVE ToNat(_)
ToNat(s) ==
    IF s = <<>> THEN 0
    ELSE 10 * ToNat(SubSeq(s, 1, Len(s) - 1)) + (Ord(s[Len(s)]) - Ord("0"))

\* pd.to_datetime(cell, errors="coerce"): <<>> is NaT, <<d>> the parsed day.
\* A date text is the decimal number of its day; every other text is unparsable.
ParseDate(cell) ==
    IF cell # NaN /\ cell # <<>> /\ \A i \in 1..Len(cell) : IsDigit(cell[i])
    THEN <<ToNat(cell)>>
    ELSE <<>>

PENDING_OVERDUE_THRESHOLD_DAYS == 5

RECURSIVE SumSeq(_)
SumSeq(s) == IF s = <<>> THEN 0 ELSE Head(s) + SumSeq(Tail(s))

SeqMax(s) == CHOOSE x \in Range(s) : \A y \in Range(s) : y <= x
SeqMin(s) == CHOOSE x \in Range(s) : \A y \in Range(s) : x <= y

\* num / den rounded to the nearest integer, a tie to the even neighbour
\* (round() and the format specification .1f)
RoundHalfEven(num, den) ==
    LET q == num \div den
        r == num % den
    IN  IF 2 * r < den THEN q
        ELSE IF 2 * r > den THEN q + 1
        ELSE IF q % 2 = 0 THEN q ELSE q + 1

\* round(num / den, 2) in hundredths
RoundHundredths(num, den) == RoundHalfEven(100 * num, den)

NoSla ==
    [average_days_to_sign |-> <<>>, max_days_to_sign |-> <<>>,
     min_days_to_sign |-> <<>>, pending_overdue_count |-> <<>>]

\* pd.to_datetime(df[c], errors="coerce")
ParsedColumn(t, c) == [r \in 1..Len(t.rows) |-> ParseDate(Column(t, c)[r])]

\* Faulty variant: a row without a parsed sent date counts from day 0.
LatencyOfSignedRows(sent, signed) ==
    SelectWhere([r \in 1..Len(sent) |->
                    IF signed[r] = <<>> THEN 0
                    ELSE IF sent[r] = <<>> THEN signed[r][1]
                    ELSE signed[r][1] - sent[r][1]],
                [r \in 1..Len(sent) |-> signed[r] # <<>>])

\* (signed - sent).dt.days.dropna(), line 458
Latency(sent, signed) ==
    SelectWhere([r \in 1..Len(sent) |->
                    IF sent[r] # <<>> /\ signed[r] # <<>>
                    THEN signed[r][1] - sent[r][1] ELSE 0],
                [r \in 1..Len(sent) |-> sent[r] # <<>> /\ signed[r] # <<>>])

\* Faulty variant: a row as old as the threshold counts as overdue.
PendingOverdueCountFromThreshold(sent, signed, now) ==
    Cardinality({r \in 1..Len(sent) :
                    /\ signed[r] = <<>>
                    /\ sent[r] # <<>>
                    /\ now - sent[r][1] >= PENDING_OVERDUE_THRESHOLD_DAYS})

\* lines 460-465; now is the day on which datetime.utcnow() is read
PendingOverdueCount(sent, signed, now) ==
    Cardinality({r \in 1..Len(sent) :
                    /\ signed[r] = <<>>
                    /\ sent[r] # <<>>
                    /\ now - sent[r][1] > PENDING_OVERDUE_THRESHOLD_DAYS})

\* lines 467-480
SlaResult(latency, pending_overdue_count) ==
    IF latency = <<>>
    THEN [average_days_to_sign |-> <<>>, max_days_to_sign |-> <<>>,
          min_days_to_sign |-> <<>>,
          pending_overdue_count |-> <<pending_overdue_count>>]
    ELSE [average_days_to_sign |-> <<RoundHundredths(SumSeq(latency), Len(latency))>>,
          max_days_to_sign |-> <<SeqMax(latency)>>,
          min_days_to_sign |-> <<SeqMin(latency)>>,
          pending_overdue_count |-> <<pending_overdue_count>>]

compute_sla_metrics(t, now) ==
    IF ~HasColumn(t, SIGNATURE_COLUMN) \/ ~HasColumn(t, SENT_TO_PHYSICIAN_COLUMN)
    THEN NoSla
    ELSE SlaResult(Latency(ParsedColumn(t, SENT_TO_PHYSICIAN_COLUMN),
                           ParsedColumn(t, SIGNATURE_COLUMN)),
                   PendingOverdueCount(ParsedColumn(t, SENT_TO_PHYSICIAN_COLUMN),
                                       ParsedColumn(t, SIGNATURE_COLUMN), now))

----------------------------------------------------------------------------
(* Stats Aggregator                                                        *)

CountTrue(mask) == Cardinality({r \in 1..Len(mask) : mask[r]})

FormatTenths(tenths) ==
    Digits(tenths \div 10) \o <<".">> \o Digits(tenths % 10) \o <<"%">>

\* f"{rate:.1f}%" of the rate num/den
FormatRate(rate) == FormatTenths(RoundHalfEven(10 * rate.num, rate.den))

RECURSIVE Flatten(_)
Flatten(ss) == IF ss = <<>> THEN <<>> ELSE Head(ss) \o Flatten(Tail(ss))

\* astype(str).str.strip() of one cell that is not missing
StrippedCell(cell) == IF cell = NaN THEN <<>> ELSE Strip(cell)

\* df.loc[failure_mask, column].dropna().astype(str).str.strip(), empty texts removed
FailingValues(t, mask, column) ==
    SelectWhere([r \in 1..Len(t.rows) |-> StrippedCell(Column(t, column)[r])],
                [r \in 1..Len(t.rows) |->
                    /\ mask[r]
                    /\ Column(t, column)[r] # NaN
                    /\ StrippedCell(Column(t, column)[r]) # <<>>])

\* Faulty variant: the values of a column are not filtered by the pattern.
MatchingValuesUnfiltered(vals, pattern) == vals

\* column_values[column_values.str.contains(pattern, na=False)], line 538
MatchingValues(vals, pattern) ==
    SelectWhere(vals, [k \in 1..Len(vals) |-> PatternSearch(pattern, vals[k])])

\* Faulty variant: the Remarks series is appended after the other columns' series.
CollectedValuesRemarksLast(t, mask, inspected, pattern) ==
    Flatten([i \in 1..Len(inspected) |->
                IF inspected[i] = "Remarks" \/ ~HasColumn(t, inspected[i])
                THEN <<>>
                ELSE MatchingValues(FailingValues(t, mask, inspected[i]), pattern)])
    \o (IF HasColumn(t, "Remarks") THEN FailingValues(t, mask, "Remarks") ELSE <<>>)

\* Frequency pass: Remarks of the failing rows, then the matching values of each
\* other inspected column (lines 525-543: the concatenated series).
CollectedValues(t, mask, inspected, pattern) ==
    (IF HasColumn(t, "Remarks") THEN FailingValues(t, mask, "Remarks") ELSE <<>>)
    \o Flatten([i \in 1..Len(inspected) |->
                  IF inspected[i] = "Remarks" \/ ~HasColumn(t, inspected[i])
                  THEN <<>>
                  ELSE MatchingValues(FailingValues(t, mask, inspected[i]), pattern)])

\* combined.value_counts().to_dict()
ValueCounts(combined) ==
    [v \in Range(combined) |-> Cardinality({k \in 1..Len(combined) : combined[k] = v})]

\* str(row[c]).strip() of a cell that is not missing, <<>> of a missing one
CellText(t, r, c) == StrippedCell(t.rows[r][ColIndex(t, c)])

\* Faulty variant: a cell that is blank after trimming still gives the identifier.
UsableIdentifierColumnsNotMissing(t, r) ==
    {i \in 1..Len(IDENTIFIER_COLUMNS) :
        /\ HasColumn(t, IDENTIFIER_COLUMNS[i])
        /\ t.rows[r][ColIndex(t, IDENTIFIER_COLUMNS[i])] # NaN}

\* The candidate columns that give the row at position r an identifier
UsableIdentifierColumns(t, r) ==
    {i \in 1..Len(IDENTIFIER_COLUMNS) :
        /\ HasColumn(t, IDENTIFIER_COLUMNS[i])
        /\ CellText(t, r, IDENTIFIER_COLUMNS[i]) # <<>>}

IdentifierFrom(t, r, usable) ==
    IF usable = {}
    THEN <<"R", "o", "w", " ">> \o Digits((r - 1) + 2)
    ELSE CellText(t, r, IDENTIFIER_COLUMNS[CHOOSE i \in usable : \A j \in usable : i <= j])

\* Detail pass, identifier of the failing row at position r (index label r - 1)
RowIdentifier(t, r) == IdentifierFrom(t, r, UsableIdentifierColumns(t, r))

\* The appends of one row under its identifier
RowAppends(t, r, inspected, pattern, identifier) ==
    (IF HasColumn(t, "Remarks") /\ CellText(t, r, "Remarks") # <<>>
     THEN << <<CellText(t, r, "Remarks"), identifier>> >>
     ELSE <<>>)
    \o Flatten([i \in 1..Len(inspected) |->
                  IF inspected[i] = "Remarks" \/ ~HasColumn(t, inspected[i])
                  THEN <<>>
                  ELSE IF CellText(t, r, inspected[i]) # <<>>
                          /\ PatternSearch(pattern, CellText(t, r, inspected[i]))
                       THEN << <<CellText(t, r, inspected[i]), identifier>> >>
                       ELSE <<>>])

\* Detail pass, the <<value, identifier>> appends made for the row at position r
RowDetails(t, r, inspected, pattern) ==
    RowAppends(t, r, inspected, pattern, RowIdentifier(t, r))

\* Detail pass over the failing rows in row order
DetailAppends(t, mask, inspected, pattern) ==
    Flatten([r \in 1..Len(t.rows) |->
                IF mask[r] THEN RowDetails(t, r, inspected, pattern) ELSE <<>>])

\* The identifiers appended under one value, in append order
IdentifiersUnder(appends, v) ==
    [k \in 1..Cardinality({j \in 1..Len(appends) : appends[j][1] = v}) |->
        SelectWhere(appends, [j \in 1..Len(appends) |-> appends[j][1] = v])[k][2]]

\* dict(failure_details)
FailureDetails(appends) ==
    [v \in {appends[k][1] : k \in 1..Len(appends)} |-> IdentifiersUnder(appends, v)]

\* Faulty variant: counts the parsed dates of both date columns.
SignedCountBothDates(t) ==
    Cardinality({<<r, c>> \in (1..Len(t.rows)) \X {SIGNATURE_COLUMN, SENT_TO_PHYSICIAN_COLUMN} :
                    HasColumn(t, c) /\ ParseDate(Column(t, c)[r]) # <<>>})

\* int(pd.to_datetime(df[SIGNATURE_COLUMN], errors="coerce").notna().sum()), 0 without the column
SignedCount(t) ==
    IF HasColumn(t, SIGNATURE_COLUMN)
    THEN Cardinality({r \in 1..Len(t.rows) :
                        ParseDate(Column(t, SIGNATURE_COLUMN)[r]) # <<>>})
    ELSE 0

EmptyStats(t, now) ==
    [total_rows |-> 0,
     success_rate |-> <<"0", ".", "0", "%">>,
     failure_rate |-> <<"0", ".", "0", "%">>,
     signed_count |-> 0,
     unsigned_count |-> 0,
     failure_count |-> 0,
     success_count |-> 0,
     unique_failure_reasons |-> <<>>,
     failure_reason_counts |-> <<>>,
     inspected_status_columns |-> <<>>,
     sla_metrics |-> compute_sla_metrics(t, now)]

\* lines 514-515 for a table with rows
SuccessRate(total_rows, failure_count) ==
    [num |-> (total_rows - failure_count) * 100, den |-> total_rows]

\* Faulty variant: the success rate is not subtracted from 100.0.
FailureRateNotSubtracted(success_rate) == success_rate

\* failure_rate = 100.0 - success_rate, line 515
FailureRate(success_rate) ==
    [num |-> 100 * success_rate.den - success_rate.num, den |-> success_rate.den]

\* The frequency pass, made only when a row fails (line 521)
Combined(t, fm) ==
    IF CountTrue(fm.mask) > 0
    THEN CollectedValues(t, fm.mask, fm.inspected_columns, fm.pattern)
    ELSE <<>>

\* The detail pass, made only when a row fails (line 521)
Appends(t, fm) ==
    IF CountTrue(fm.mask) > 0
    THEN DetailAppends(t, fm.mask, fm.inspected_columns, fm.pattern)
    ELSE <<>>

\* The dictionary returned at lines 574-587
StatsResult(total_rows, failure_count, signed_count, combined, appends, inspected_columns, sla_metrics) ==
    [total_rows |-> total_rows,
     success_rate |-> FormatRate(SuccessRate(total_rows, failure_count)),
     failure_rate |-> FormatRate(FailureRate(SuccessRate(total_rows, failure_count))),
     signed_count |-> signed_count,
     unsigned_count |-> total_rows - signed_count,
     failure_count |-> failure_count,
     success_count |-> total_rows - failure_count,
     unique_failure_reasons |-> Dedupe(combined),
     failure_reason_counts |-> ValueCounts(combined),
     failure_details |-> FailureDetails(appends),
     inspected_status_columns |-> inspected_columns,
     sla_metrics |-> sla_metrics]

StatsWithMask(t, fm, now) ==
    StatsResult(Len(t.rows), CountTrue(fm.mask), SignedCount(t), Combined(t, fm),
                Appends(t, fm), fm.inspected_columns, compute_sla_metrics(t, now))

calculate_stats(t, agency_config, now) ==
    IF Len(t.rows) = 0 THEN EmptyStats(t, now)
    ELSE StatsWithMask(t,
            build_failure_mask(t, agency_config.failure_keywords,
                               agency_config.status_columns),
            now)

----------------------------------------------------------------------------
(* File Analyzer                                                           *)

\* A missing dictionary value (Python's None) where a text is expected.
None == <<"None">>

SIGNED == <<"s","i","g","n","e","d">>
UNSIGNED == <<"u","n","s","i","g","n","e","d">>
MIXED == <<"m","i","x","e","d">>

\* Faulty variant: "signed" is looked for first.
determine_template_type_signed_first(name) ==
    IF Contains(Lower(name), SIGNED) THEN SIGNED
    ELSE IF Contains(Lower(name), UNSIGNED) THEN UNSIGNED
    ELSE MIXED

determine_template_type(name) ==
    IF Contains(Lower(name), UNSIGNED) THEN UNSIGNED
    ELSE IF Contains(Lower(name), SIGNED) THEN SIGNED
    ELSE MIXED

infer_ehr_from_filename(name) ==
    IF Contains(Lower(name), <<"a","x","x","e","s","s">>) THEN <<"A","x","x","e","s","s">>
    ELSE IF Contains(Lower(name), <<"k","i","n","n","s","e","r">>)
         THEN <<"K","i","n","n","s","e","r">>
    ELSE IF Contains(Lower(name), <<"a","t","h","e","n","a">>)
         THEN <<"A","t","h","e","n","a">>
    ELSE <<"U","n","k","n","o","w","n">>

\* os.path.splitext(name)[0]: cut at the last dot of the last path component,
\* unless only dots precede it there.
SplitExtBase(name) ==
    LET seps == {i \in 1..Len(name) : name[i] = "/"}
        sep == IF seps = {} THEN 0 ELSE CHOOSE i \in seps : \A j \in seps : j <= i
        dots == {i \in 1..Len(name) : name[i] = "."}
        dot == IF dots = {} THEN 0 ELSE CHOOSE i \in dots : \A j \in dots : j <= i
    IN  IF dot > sep /\ \E i \in (sep + 1)..(dot - 1) : name[i] # "."
        THEN SubSeq(name, 1, dot - 1)
        ELSE name

PAIR_MARKERS ==
    << <<"_","s","i","g","n","e","d","o","r","d","e","r","t","e","m","p","l","a","t","e">>,
       <<"_","u","n","s","i","g","n","e","d","o","r","d","e","r","t","e","m","p","l","a","t","e">>,
       <<"_","s","i","g","n","e","d","o","r","d","e","r">>,
       <<"_","u","n","s","i","g","n","e","d","o","r","d","e","r">>,
       <<"_","s","i","g","n","e","d">>,
       <<"_","u","n","s","i","g","n","e","d">>,
       <<"_","o","r","d","e","r","t","e","m","p","l","a","t","e">> >>

\* str.rstrip("-_ ")
RECURSIVE RStripSeparators(_)
RStripSeparators(s) ==
    IF s # <<>> /\ s[Len(s)] \in {"-", "_", " "}
    THEN RStripSeparators(SubSeq(s, 1, Len(s) - 1))
    ELSE s

\* Positions in PAIR_MARKERS of the markers the lowered base name contains
FoundMarkers(lowered) ==
    {m \in 1..Len(PAIR_MARKERS) : Contains(lowered, PAIR_MARKERS[m])}

\* Faulty variant: an empty result is returned as it is.
CutAtWithoutFallback(base_name, idx) ==
    RStripSeparators(SubSeq(base_name, 1, idx - 1))

\* base_name[:idx].rstrip("-_ ") or base_name, line 398
CutAt(base_name, idx) ==
    IF RStripSeparators(SubSeq(base_name, 1, idx - 1)) # <<>>
    THEN RStripSeparators(SubSeq(base_name, 1, idx - 1))
    ELSE base_name

\* The loop of lines 395-398 for the first marker found
CutAtFirstMarker(base_name, lowered, found) ==
    IF found = {} THEN base_name
    ELSE CutAt(base_name,
               Find(lowered, PAIR_MARKERS[CHOOSE m \in found : \A k \in found : m <= k]))

PairKeyOfBase(base_name) ==
    CutAtFirstMarker(base_name, Lower(base_name), FoundMarkers(Lower(base_name)))

derive_pair_key(name) == PairKeyOfBase(SplitExtBase(name))

\* The dictionary returned at lines 597-607
AnalysisResult(t, name, ag, stats) ==
    [agency |-> ag,
     ehr |-> infer_ehr_from_filename(name),
     file_name |-> name,
     template_type |-> determine_template_type(name),
     pair_key |-> derive_pair_key(name),
     stats |-> stats,
     unique_failure_reasons |-> stats.unique_failure_reasons,
     failure_reason_counts |-> stats.failure_reason_counts,
     order_ids |-> extract_order_identifiers(t)]

analyze_file(t, name, ag, now) ==
    AnalysisResult(t, name, ag, calculate_stats(t, resolve_agency_config(ag), now))

----------------------------------------------------------------------------
(* Pairing Engine                                                          *)

\* `x or default` for a text that may be missing or empty
OrElse(x, default) == IF x = None \/ x = <<>> THEN default ELSE x

\* Faulty variant: entries are grouped by agency alone.
CompositeKeyAgencyOnly(entry) == <<entry.agency, <<>>>>

\* (agency, pair_key) of an entry, lines 665-667
CompositeKey(entry) ==
    <<entry.agency, OrElse(entry.pair_key, derive_pair_key(entry.file_name))>>

\* Faulty variant: only an exactly unsigned entry goes to the unsigned slot.
BucketKeyUnsignedOnly(entry) ==
    IF OrElse(entry.template_type, MIXED) = UNSIGNED THEN "unsigned" ELSE "signed"

\* lines 671-672
BucketKey(entry) ==
    IF OrElse(entry.template_type, MIXED) = SIGNED THEN "signed" ELSE "unsigned"

\* Faulty variant: an occupied slot keeps its first entry.
PutSlotKeepFirst(slots, bucket_key, entry) ==
    IF slots[bucket_key] = <<>> THEN [slots EXCEPT ![bucket_key] = <<entry>>] ELSE slots

\* pair_map[composite_key][bucket_key] = entry, line 673
PutSlot(slots, bucket_key, entry) == [slots EXCEPT ![bucket_key] = <<entry>>]

\* One iteration of the loop of lines 664-673 for an entry with the given key
PutEntry(before, entry, key) ==
    IF key \notin Range(before.ordered_keys)
    THEN [pair_map |->
             Append(before.pair_map,
                    PutSlot([signed |-> <<>>, unsigned |-> <<>>], BucketKey(entry), entry)),
          ordered_keys |-> Append(before.ordered_keys, key)]
    ELSE [pair_map |->
             [i \in 1..Len(before.ordered_keys) |->
                 IF before.ordered_keys[i] = key
                 THEN PutSlot(before.pair_map[i], BucketKey(entry), entry)
                 ELSE before.pair_map[i]],
          ordered_keys |-> before.ordered_keys]

\* The loop of lines 664-673: the slots per composite key and the keys in
\* first-seen order.
RECURSIVE PairMap(_)
PairMap(results) ==
    IF results = <<>> THEN [pair_map |-> <<>>, ordered_keys |-> <<>>]
    ELSE PutEntry(PairMap(SubSeq(results, 1, Len(results) - 1)),
                  results[Len(results)],
                  CompositeKey(results[Len(results)]))

\* _coerce_order_ids applied to a slot
SlotOrderIds(slot) == IF slot = <<>> THEN {} ELSE slot[1].order_ids

SlotReasons(slot) == IF slot = <<>> THEN <<>> ELSE slot[1].unique_failure_reasons

\* Faulty variant: the two sets are subtracted the wrong way round.
PendingOperandsSwapped(signed_ids, unsigned_ids) == Sorted(signed_ids \ unsigned_ids)

\* Faulty variant: the signed identifiers are not subtracted.
PendingWithoutSubtraction(signed_ids, unsigned_ids) == Sorted(unsigned_ids)

\* line 623
PendingSignatureOrders(signed_ids, unsigned_ids) == Sorted(unsigned_ids \ signed_ids)

\* line 624
SignedWithoutUnsignedSource(signed_ids, unsigned_ids) == Sorted(signed_ids \ unsigned_ids)

FirstN(s, n) == SubSeq(s, 1, IF Len(s) < n THEN Len(s) ELSE n)

\* Faulty variant: the signed side's reasons come first.
DominantFailuresSignedFirst(signed, unsigned) ==
    FirstN(Dedupe(SlotReasons(signed) \o SlotReasons(unsigned)), 5)

\* lines 641-646
DominantFailures(signed, unsigned) ==
    FirstN(Dedupe(SlotReasons(unsigned) \o SlotReasons(signed)), 5)

summarize_pair_entries(signed, unsigned) ==
    [documents_processed |->
        [signed |-> IF signed = <<>> THEN 0 ELSE signed[1].stats.total_rows,
         unsigned |-> IF unsigned = <<>> THEN 0 ELSE unsigned[1].stats.total_rows],
     failure_rate_unsigned |->
        IF unsigned = <<>> THEN None ELSE unsigned[1].stats.failure_rate,
     failure_rate_signed |->
        IF signed = <<>> THEN None ELSE signed[1].stats.failure_rate,
     success_rate_unsigned |->
        IF unsigned = <<>> THEN None ELSE unsigned[1].stats.success_rate,
     success_rate_signed |->
        IF signed = <<>> THEN None ELSE signed[1].stats.success_rate,
     pending_signature_orders |->
        PendingSignatureOrders(SlotOrderIds(signed), SlotOrderIds(unsigned)),
     signed_without_unsigned_source |->
        SignedWithoutUnsignedSource(SlotOrderIds(signed), SlotOrderIds(unsigned)),
     dominant_failure_reasons |-> DominantFailures(signed, unsigned)]

\* PairResult of the key at position i, lines 683-691
PairResultAt(pm, i) ==
    [pair_key |-> pm.ordered_keys[i][2],
     agency |-> pm.ordered_keys[i][1],
     signed |-> pm.pair_map[i].signed,
     unsigned |-> pm.pair_map[i].unsigned,
     combined_summary |->
        summarize_pair_entries(pm.pair_map[i].signed, pm.pair_map[i].unsigned)]

\* The loop of lines 676-691; a key without any entry is skipped (lines 680-682)
PairResultsOf(pm) ==
    SelectWhere([i \in 1..Len(pm.ordered_keys) |-> PairResultAt(pm, i)],
                [i \in 1..Len(pm.ordered_keys) |->
                    pm.pair_map[i].signed # <<>> \/ pm.pair_map[i].unsigned # <<>>])

build_pair_results(results) == PairResultsOf(PairMap(results))

----------------------------------------------------------------------------
(* Reconciliation Engine                                                   *)

\* Faulty variant: every entry that is not signed counts as unsigned, as in pairing.
ReconSideAsPairing(entry) ==
    IF entry.template_type = SIGNED THEN <<"signed">> ELSE <<"unsigned">>

\* lines 702-706: the side an entry's identifiers are added to, <<>> for neither
ReconSide(entry) ==
    IF entry.template_type = SIGNED THEN <<"signed">>
    ELSE IF entry.template_type = UNSIGNED THEN <<"unsigned">>
    ELSE <<>>

\* Faulty variant: a later file's identifiers replace the set.
UpdateSideOverwrite(sets, side, order_ids) == [sets EXCEPT ![side] = order_ids]

\* grouped[agency][side].update(order_ids), lines 704 and 706
UpdateSide(sets, side, order_ids) == [sets EXCEPT ![side] = @ \cup order_ids]

\* The loop of lines 700-706: the agencies in insertion order and their sets.
RECURSIVE Grouped(_)
Grouped(results) ==
    IF results = <<>> THEN [agencies |-> <<>>, sets |-> <<>>]
    ELSE LET before == Grouped(SubSeq(results, 1, Len(results) - 1))
             entry == results[Len(results)]
             side == ReconSide(entry)
         IN  IF side = <<>> THEN before
             ELSE LET fresh == entry.agency \notin Range(before.agencies)
                      ags == IF fresh THEN Append(before.agencies, entry.agency)
                             ELSE before.agencies
                      old == IF fresh THEN [signed |-> {}, unsigned |-> {}]
                             ELSE before.sets[CHOOSE i \in 1..Len(ags) :
                                                ags[i] = entry.agency]
                      new == UpdateSide(old, side[1], entry.order_ids)
                  IN  [agencies |-> ags,
                       sets |-> [i \in 1..Len(ags) |->
                                   IF ags[i] = entry.agency THEN new
                                   ELSE before.sets[i]]]

build_reconciliation_summary(results) ==
    IF results = <<>> THEN <<>>
    ELSE LET g == Grouped(results)
         IN  [i \in 1..Len(g.agencies) |->
                [agency |-> g.agencies[i],
                 unsigned_total |-> Cardinality(g.sets[i].unsigned),
                 signed_total |-> Cardinality(g.sets[i].signed),
                 pending_signature_orders |->
                    Sorted(g.sets[i].unsigned \ g.sets[i].signed),
                 signed_without_unsigned_source |->
                    Sorted(g.sets[i].signed \ g.sets[i].unsigned)]]

----------------------------------------------------------------------------
(* Inputs                                                                  *)

MaxRows == 2
MaxFiles == 3
Today == 12

\* Cell values per column of the input tables.
CellDomain(column) ==
    CASE column = "OrderId" -> {NaN, <<" ">>, <<" ", "A", "1", " ">>}
      [] column = "Order Number" -> {NaN, <<>>, <<"N", "7">>}
      [] column = "Document Id" -> {NaN, <<"D", "3">>}
      [] column = "Remarks" -> {NaN, <<" ">>, <<"F", "a", "i", "l", "e", "d", " ">>}
      [] column = "Order Upload Status" ->
            {<<"D", "o", "n", "e">>, <<"E", "r", "r", "o", "r">>}
      [] column = "Patient" -> {<<"P">>, <<"n", "o", "n", " ", "d", "a">>}
      [] column = "Signed By Physician Date" -> {NaN, <<"8">>, <<"n", "a">>}
      [] column = "Sent To Physician Date" -> {NaN, <<"6">>, <<"7">>, <<"n", "a">>}

Schemas ==
    { <<>>,
      <<"OrderId", "Order Number">>,
      <<"Order Number", "OrderId">>,
      <<"Document Id", "Order Number">>,
      <<"Patient", "Document Id">>,
      <<"Patient">>,
      <<"OrderId", "Remarks", "Order Upload Status">>,
      <<"Patient", "Signed By Physician Date">>,
      <<"Sent To Physician Date", "Signed By Physician Date">> }

RECURSIVE RowSet(_)
RowSet(schema) ==
    IF schema = <<>> THEN {<<>>}
    ELSE {<<c>> \o rest : c \in CellDomain(Head(schema)), rest \in RowSet(Tail(schema))}

\* A table without columns has no rows (load_dataframe).
TablesOf(schema) ==
    {[columns |-> schema, rows |-> rs] :
        rs \in UNION {[1..n -> RowSet(schema)] :
                        n \in 0..(IF schema = <<>> THEN 0 ELSE MaxRows)}}

Tables == UNION {TablesOf(schema) : schema \in Schemas}

Agencies ==
    { <<"A", "c", "m", "e">>,
      <<"A", "x", "x", "e", "s", "s">>,
      <<"K", "I", "N", "N", "S", "E", "R">> }

DefaultFileName ==
    <<"A", "c", "m", "e", "_", "S", "i", "g", "n", "e", "d", ".", "c", "s", "v">>

EmptyTable == [columns |-> <<>>, rows |-> <<>>]

\* --- inputs of the fold step ---

TableAB ==
    [columns |-> <<"OrderId", "Remarks">>,
     rows |-> << <<<<"A">>, <<"F", "a", "i", "l", "e", "d">>>>, <<<<"B">>, NaN>> >>]

TableBC ==
    [columns |-> <<"OrderId", "Remarks">>,
     rows |-> << <<<<"C">>, NaN>>, <<<<"B">>, <<"E", "r", "r", "o", "r">>>> >>]

\* (agency, base name) of the files of a batch
FoldKeys ==
    { << <<"X">>, <<"p">> >>, << <<"X">>, <<"q">> >>, << <<"Y">>, <<"p">> >> }

SignedSuffix == <<"_", "S", "i", "g", "n", "e", "d", ".", "c", "s", "v">>
UnsignedSuffix == <<"_", "U", "n", "s", "i", "g", "n", "e", "d", ".", "c", "s", "v">>
TemplateSuffix ==
    <<"_", "O", "r", "d", "e", "r", "T", "e", "m", "p", "l", "a", "t", "e", ".", "c", "s", "v">>

\* (table, file name suffix) of the files of a batch
FoldContents ==
    { <<TableAB, SignedSuffix>>, <<TableBC, SignedSuffix>>,
      <<TableAB, UnsignedSuffix>>, <<TableBC, UnsignedSuffix>>,
      <<TableAB, TemplateSuffix>> }

\* The analyses of the mixed files once more with the template type missing
WithMissingType(made) ==
    made \cup {[a EXCEPT !.template_type = None] :
                  a \in {m \in made : m.template_type = MIXED}}

\* What analyze_file returns for the files of a batch
AnalysisPool ==
    WithMissingType({analyze_file(c[1], k[2] \o c[2], k[1], Today) :
                        c \in FoldContents, k \in FoldKeys})

Batches == UNION {[1..n -> AnalysisPool] : n \in 0..MaxFiles}

----------------------------------------------------------------------------
(* Analysis of one file                                                    *)

Init ==
    /\ df \in Tables
    /\ file_name = DefaultFileName
    /\ agency \in Agencies
    /\ utcnow = Today
    /\ analysis = <<>>
    /\ audit_results = <<>>
    /\ paired_results = <<>>
    /\ reconciliation_summary = <<>>
    /\ mask_result = <<>>
    /\ run_days = <<>>
    /\ resolved_config = <<>>
    /\ ServiceIdle
    /\ pc = "loaded"

\* analyze_file(df, file_name, agency)
AnalyzeFile ==
    /\ pc = "loaded"
    /\ analysis' = <<analyze_file(df, file_name, agency, utcnow)>>
    /\ pc' = "analyzed"
    /\ UNCHANGED <<df, file_name, agency, utcnow, audit_results, paired_results,
                   reconciliation_summary, mask_result, run_days, resolved_config,
                   service_vars>>

Next == AnalyzeFile

Spec == Init /\ [][Next]_vars

----------------------------------------------------------------------------
(* The fold step over the analyses of a batch                              *)

InitFold ==
    /\ df = EmptyTable
    /\ file_name = <<>>
    /\ agency = <<>>
    /\ utcnow = Today
    /\ analysis = <<>>
    /\ audit_results \in Batches
    /\ paired_results = <<>>
    /\ reconciliation_summary = <<>>
    /\ mask_result = <<>>
    /\ run_days = <<>>
    /\ resolved_config = <<>>
    /\ ServiceIdle
    /\ pc = "analyzed_all"

\* run_audit, lines 1136-1137
Fold ==
    /\ pc = "analyzed_all"
    /\ paired_results' = build_pair_results(audit_results)
    /\ reconciliation_summary' = build_reconciliation_summary(audit_results)
    /\ pc' = "folded"
    /\ UNCHANGED <<df, file_name, agency, utcnow, analysis, audit_results, mask_result,
                   run_days, resolved_config,
                   service_vars>>

NextFold == Fold

SpecFold == InitFold /\ [][NextFold]_vars

----------------------------------------------------------------------------
(* Properties of the analysis of one file (specification Spec)             *)

Analyzed == pc = "analyzed"
Stats == analysis[1].stats
OrderIds == analysis[1].order_ids

\* C1: for every table with at least one row and every agency rule, the stats
\* satisfy success_count + failure_count = total_rows and
\* signed_count + unsigned_count = total_rows, with all four counts >= 0.
C1_CountsPartitionRows ==
    (Analyzed /\ Len(df.rows) >= 1) =>
        /\ Stats.total_rows = Len(df.rows)
        /\ Stats.success_count + Stats.failure_count = Stats.total_rows
        /\ Stats.signed_count + Stats.unsigned_count = Stats.total_rows
        /\ Stats.success_count >= 0 /\ Stats.failure_count >= 0
        /\ Stats.signed_count >= 0 /\ Stats.unsigned_count >= 0

\* C1 witness: a two-row table with one failing and one passing row, one signed
\* and one unsigned row, analysed under the axxess rule.
C1_Witness ==
    /\ Analyzed
    /\ agency = <<"A", "x", "x", "e", "s", "s">>
    /\ Stats.total_rows = 2
    /\ Stats.failure_count = 1 /\ Stats.success_count = 1
    /\ Stats.signed_count = 1 /\ Stats.unsigned_count = 1

\* The first column of the priority list OrderId, Order Number, Document Id
\* that the table has, <<>> when it has none.
SelectedIdentifierColumn ==
    IF HasColumn(df, "OrderId") THEN <<"OrderId">>
    ELSE IF HasColumn(df, "Order Number") THEN <<"Order Number">>
    ELSE IF HasColumn(df, "Document Id") THEN <<"Document Id">>
    ELSE <<>>

\* Trimmed values a column holds in the rows where it is not missing.
TrimmedValuesOf(column) ==
    {Strip(Column(df, column)[r]) :
        r \in {q \in 1..Len(df.rows) : Column(df, column)[q] # NaN}}

\* C8: extract_order_identifiers returns values only from the first column of
\* the priority list present in the schema, never a union across candidates:
\* with OrderId and Order Number both present no value occurring only in
\* Order Number is returned; without a candidate column the result is empty.
C8_FirstIdentifierColumnOnly ==
    Analyzed =>
        /\ SelectedIdentifierColumn = <<>> => OrderIds = {}
        /\ SelectedIdentifierColumn # <<>> =>
              OrderIds \subseteq TrimmedValuesOf(SelectedIdentifierColumn[1])
        /\ (HasColumn(df, "OrderId") /\ HasColumn(df, "Order Number")) =>
              \A v \in TrimmedValuesOf("Order Number") \ TrimmedValuesOf("OrderId") :
                  v \notin OrderIds

\* C8 witness: OrderId and Order Number are both present, a row has a missing
\* OrderId and an Order Number found nowhere in OrderId, and that value is not
\* in the returned non-empty set.
C8_Witness ==
    /\ Analyzed
    /\ HasColumn(df, "OrderId") /\ HasColumn(df, "Order Number")
    /\ \E r \in 1..Len(df.rows) :
          /\ Column(df, "OrderId")[r] = NaN
          /\ Column(df, "Order Number")[r] = <<"N", "7">>
    /\ <<"N", "7">> \notin OrderIds
    /\ <<"A", "1">> \in OrderIds

\* C9: the set returned by extract_order_identifiers contains only trimmed,
\* non-empty strings; missing, empty and whitespace-only values are excluded.
C9_OnlyNonEmptyTrimmedIdentifiers ==
    Analyzed => \A v \in OrderIds : v # <<>> /\ Strip(v) = v

\* C10: for a zero-row table all five counts are 0, both rates are "0.0%",
\* unique_failure_reasons, failure_reason_counts and inspected_status_columns
\* are empty, and failure_details is present and is the empty mapping.
C10_ZeroRowStats ==
    (Analyzed /\ Len(df.rows) = 0) =>
        /\ Stats.total_rows = 0
        /\ Stats.success_count = 0 /\ Stats.failure_count = 0
        /\ Stats.signed_count = 0 /\ Stats.unsigned_count = 0
        /\ Stats.success_rate = <<"0", ".", "0", "%">>
        /\ Stats.failure_rate = <<"0", ".", "0", "%">>
        /\ Stats.unique_failure_reasons = <<>>
        /\ DOMAIN Stats.failure_reason_counts = {}
        /\ Stats.inspected_status_columns = <<>>
        /\ "failure_details" \in DOMAIN Stats
        /\ DOMAIN Stats.failure_details = {}

----------------------------------------------------------------------------
(* Properties of the fold step (specification SpecFold)                    *)

Folded == pc = "folded"

NumFiles == Len(audit_results)
NumPairs == Len(paired_results)

KeyOf(entry) == <<entry.agency, entry.pair_key>>
PairKeyOf(pr) == <<pr.agency, pr.pair_key>>

IdsOfSlot(slot) == IF slot = <<>> THEN {} ELSE slot[1].order_ids

\* seq lists exactly the members of S in ascending order
ListsAscending(seq, S) ==
    /\ Range(seq) = S
    /\ \A i, j \in 1..Len(seq) : i < j => StrLess(seq[i], seq[j])

\* C2: in every PairResult pending_signature_orders is the ascending list of
\* exactly the identifiers of the unsigned slot that are not in the signed
\* slot, and signed_without_unsigned_source the ascending list of exactly those
\* of the signed slot not in the unsigned slot; a null slot is the empty set.
C2_PairDifferencesSorted ==
    Folded =>
        \A i \in 1..NumPairs :
            LET pr == paired_results[i]
            IN  /\ ListsAscending(pr.combined_summary.pending_signature_orders,
                                  IdsOfSlot(pr.unsigned) \ IdsOfSlot(pr.signed))
                /\ ListsAscending(pr.combined_summary.signed_without_unsigned_source,
                                  IdsOfSlot(pr.signed) \ IdsOfSlot(pr.unsigned))

\* C2 witness: one pair with signed {A,B} and unsigned {B,C} gives pending [C]
\* and orphaned [A]; another pair with a null signed slot lists [A,B] as pending.
C2_Witness ==
    /\ Folded
    /\ \E i \in 1..NumPairs :
          /\ IdsOfSlot(paired_results[i].signed) = {<<"A">>, <<"B">>}
          /\ IdsOfSlot(paired_results[i].unsigned) = {<<"B">>, <<"C">>}
          /\ paired_results[i].combined_summary.pending_signature_orders = << <<"C">> >>
          /\ paired_results[i].combined_summary.signed_without_unsigned_source
                = << <<"A">> >>
    /\ \E i \in 1..NumPairs :
          /\ paired_results[i].signed = <<>>
          /\ paired_results[i].combined_summary.pending_signature_orders
                = << <<"A">>, <<"B">> >>

FirstIndexOfKey(key) ==
    CHOOSE j \in 1..NumFiles :
        /\ KeyOf(audit_results[j]) = key
        /\ \A k \in 1..(j - 1) : KeyOf(audit_results[k]) # key

\* C3: build_pair_results returns exactly one PairResult per distinct
\* (agency, pair_key) of the input, in the order of first occurrence, and every
\* PairResult has a non-null slot.
C3_OnePairPerKeyInFirstSeenOrder ==
    Folded =>
        /\ \A j \in 1..NumFiles :
              \E i \in 1..NumPairs : PairKeyOf(paired_results[i]) = KeyOf(audit_results[j])
        /\ \A i \in 1..NumPairs :
              \E j \in 1..NumFiles : KeyOf(audit_results[j]) = PairKeyOf(paired_results[i])
        /\ \A i, k \in 1..NumPairs :
              i < k =>
                /\ PairKeyOf(paired_results[i]) # PairKeyOf(paired_results[k])
                /\ FirstIndexOfKey(PairKeyOf(paired_results[i]))
                      < FirstIndexOfKey(PairKeyOf(paired_results[k]))
        /\ \A i \in 1..NumPairs :
              paired_results[i].signed # <<>> \/ paired_results[i].unsigned # <<>>

\* C3 witness: three files whose first and third share a key the second does
\* not have; two PairResults, the first for the shared key.
C3_Witness ==
    /\ Folded
    /\ NumFiles = 3
    /\ KeyOf(audit_results[1]) = KeyOf(audit_results[3])
    /\ KeyOf(audit_results[1]) # KeyOf(audit_results[2])
    /\ NumPairs = 2
    /\ PairKeyOf(paired_results[1]) = KeyOf(audit_results[1])
    /\ PairKeyOf(paired_results[2]) = KeyOf(audit_results[2])

\* The slot an analysis belongs to: signed for exactly "signed", else unsigned.
SlotNameOf(entry) == IF entry.template_type = SIGNED THEN "signed" ELSE "unsigned"

CandidatesOf(key, slot) ==
    {j \in 1..NumFiles :
        KeyOf(audit_results[j]) = key /\ SlotNameOf(audit_results[j]) = slot}

\* The last analysis of the input for a slot, <<>> when there is none
LastFor(key, slot) ==
    IF CandidatesOf(key, slot) = {} THEN <<>>
    ELSE <<audit_results[CHOOSE j \in CandidatesOf(key, slot) :
                            \A k \in CandidatesOf(key, slot) : k <= j]>>

\* C4: when two or more analyses fall into the same slot of the same
\* (agency, pair_key), the slot holds the last of them, unmerged: the combined
\* summary is that of the last analyses alone.
C4_LastWriteWins ==
    Folded =>
        \A i \in 1..NumPairs :
            LET pr == paired_results[i]
                key == PairKeyOf(pr)
                lastSigned == LastFor(key, "signed")
                lastUnsigned == LastFor(key, "unsigned")
            IN  (\E slot \in {"signed", "unsigned"} :
                    Cardinality(CandidatesOf(key, slot)) >= 2) =>
                    /\ pr.signed = lastSigned
                    /\ pr.unsigned = lastUnsigned
                    /\ ListsAscending(pr.combined_summary.pending_signature_orders,
                                      IdsOfSlot(lastUnsigned) \ IdsOfSlot(lastSigned))
                    /\ ListsAscending(pr.combined_summary.signed_without_unsigned_source,
                                      IdsOfSlot(lastSigned) \ IdsOfSlot(lastUnsigned))
                    /\ pr.combined_summary.documents_processed.signed =
                          (IF lastSigned = <<>> THEN 0 ELSE lastSigned[1].stats.total_rows)
                    /\ pr.combined_summary.documents_processed.unsigned =
                          (IF lastUnsigned = <<>> THEN 0
                           ELSE lastUnsigned[1].stats.total_rows)
                    /\ lastUnsigned # <<>> =>
                          pr.combined_summary.failure_rate_unsigned =
                             lastUnsigned[1].stats.failure_rate
                    /\ lastSigned # <<>> =>
                          pr.combined_summary.failure_rate_signed =
                             lastSigned[1].stats.failure_rate

\* C4 witness: two unsigned analyses of one key, {A,B} then {B,C}, and no signed
\* one: the slot holds the second and A is not pending.
C4_Witness ==
    /\ Folded
    /\ NumFiles >= 2
    /\ KeyOf(audit_results[1]) = KeyOf(audit_results[2])
    /\ audit_results[1].template_type = UNSIGNED
    /\ audit_results[2].template_type = UNSIGNED
    /\ audit_results[1].order_ids = {<<"A">>, <<"B">>}
    /\ audit_results[2].order_ids = {<<"B">>, <<"C">>}
    /\ NumPairs = 1
    /\ paired_results[1].signed = <<>>
    /\ paired_results[1].unsigned = <<audit_results[2]>>
    /\ paired_results[1].combined_summary.pending_signature_orders
          = << <<"B">>, <<"C">> >>

PairOfKey(key) ==
    paired_results[CHOOSE i \in 1..NumPairs : PairKeyOf(paired_results[i]) = key]

\* C5: an analysis is placed in the signed slot iff its template_type is
\* exactly "signed"; every other template_type, "mixed" and a missing value
\* included, is placed in the unsigned slot.
C5_SignedSlotIffExactlySigned ==
    Folded =>
        /\ \A i \in 1..NumPairs :
              /\ paired_results[i].signed # <<>> =>
                    paired_results[i].signed[1].template_type = SIGNED
              /\ paired_results[i].unsigned # <<>> =>
                    paired_results[i].unsigned[1].template_type # SIGNED
        /\ \A j \in 1..NumFiles :
              LET entry == audit_results[j]
              IN  /\ \E i \in 1..NumPairs : PairKeyOf(paired_results[i]) = KeyOf(entry)
                  /\ IF entry.template_type = SIGNED
                     THEN PairOfKey(KeyOf(entry)).signed # <<>>
                     ELSE PairOfKey(KeyOf(entry)).unsigned # <<>>

\* C5 witness: a mixed analysis and one without a template type sit in unsigned
\* slots, a signed one in a signed slot.
C5_Witness ==
    /\ Folded
    /\ \E i \in 1..NumPairs :
          /\ paired_results[i].unsigned # <<>>
          /\ paired_results[i].unsigned[1].template_type = MIXED
    /\ \E i \in 1..NumPairs :
          /\ paired_results[i].unsigned # <<>>
          /\ paired_results[i].unsigned[1].template_type = None
    /\ \E i \in 1..NumPairs :
          /\ paired_results[i].signed # <<>>
          /\ paired_results[i].signed[1].template_type = SIGNED

NumEntries == Len(reconciliation_summary)

\* Identifiers of the analyses of an agency whose template_type is exactly ttype
IdsOfAgency(ag, ttype) ==
    UNION {audit_results[j].order_ids :
              j \in {k \in 1..NumFiles :
                        /\ audit_results[k].agency = ag
                        /\ audit_results[k].template_type = ttype}}

ReconciledAgencies ==
    {audit_results[j].agency :
        j \in {k \in 1..NumFiles : audit_results[k].template_type \in {SIGNED, UNSIGNED}}}

\* C6: build_reconciliation_summary returns exactly one entry per distinct
\* agency with an analysis of template_type exactly "signed" or "unsigned";
\* analyses of another type add no identifiers and create no entry; an empty
\* input gives an empty result.
C6_OneEntryPerReconciledAgency ==
    Folded =>
        /\ {reconciliation_summary[i].agency : i \in 1..NumEntries} = ReconciledAgencies
        /\ NumEntries = Cardinality(ReconciledAgencies)
        /\ \A i \in 1..NumEntries :
              LET e == reconciliation_summary[i]
              IN  /\ Range(e.pending_signature_orders)
                        \subseteq IdsOfAgency(e.agency, UNSIGNED)
                  /\ Range(e.signed_without_unsigned_source)
                        \subseteq IdsOfAgency(e.agency, SIGNED)
                  /\ e.unsigned_total <= Cardinality(IdsOfAgency(e.agency, UNSIGNED))
                  /\ e.signed_total <= Cardinality(IdsOfAgency(e.agency, SIGNED))
        /\ NumFiles = 0 => reconciliation_summary = <<>>

\* C6 witness: agency Y has only a mixed file, agency X a signed file and a
\* mixed file with other identifiers; the single entry is X's and counts only
\* the signed file.
C6_Witness ==
    /\ Folded
    /\ NumFiles = 3
    /\ \E j \in 1..NumFiles :
          audit_results[j].agency = <<"Y">> /\ audit_results[j].template_type = MIXED
    /\ \A j \in 1..NumFiles :
          audit_results[j].agency = <<"Y">> =>
             audit_results[j].template_type \in {MIXED, None}
    /\ \E j \in 1..NumFiles :
          /\ audit_results[j].agency = <<"X">>
          /\ audit_results[j].template_type = None
          /\ audit_results[j].order_ids = {<<"A">>, <<"B">>}
    /\ NumEntries = 1
    /\ reconciliation_summary[1].agency = <<"X">>
    /\ reconciliation_summary[1].unsigned_total = 0
    /\ reconciliation_summary[1].signed_total = 2
    /\ reconciliation_summary[1].signed_without_unsigned_source = << <<"B">>, <<"C">> >>

\* C7: for every agency entry the unsigned set is the union of order_ids over
\* all unsigned analyses of the agency, whatever their pair_key, and the signed
\* set the union over its signed analyses; the totals are the sizes of the
\* unions and the two lists are the sorted differences.
C7_AgencyWideUnions ==
    Folded =>
        \A i \in 1..NumEntries :
            LET e == reconciliation_summary[i]
                U == IdsOfAgency(e.agency, UNSIGNED)
                S == IdsOfAgency(e.agency, SIGNED)
            IN  /\ e.unsigned_total = Cardinality(U)
                /\ e.signed_total = Cardinality(S)
                /\ ListsAscending(e.pending_signature_orders, U \ S)
                /\ ListsAscending(e.signed_without_unsigned_source, S \ U)

\* C7 witness: agency X has unsigned files {A,B} and {B,C} under different pair
\* keys and a signed file {A,B}: unsigned_total 3, signed_total 2, pending [C].
C7_Witness ==
    /\ Folded
    /\ NumFiles = 3
    /\ \A j \in 1..NumFiles : audit_results[j].agency = <<"X">>
    /\ \E j, k \in 1..NumFiles :
          /\ audit_results[j].template_type = UNSIGNED
          /\ audit_results[k].template_type = UNSIGNED
          /\ audit_results[j].pair_key # audit_results[k].pair_key
          /\ audit_results[j].order_ids = {<<"A">>, <<"B">>}
          /\ audit_results[k].order_ids = {<<"B">>, <<"C">>}
    /\ NumEntries = 1
    /\ reconciliation_summary[1].unsigned_total = 3
    /\ reconciliation_summary[1].signed_total = 2
    /\ reconciliation_summary[1].pending_signature_orders = << <<"C">> >>
    /\ reconciliation_summary[1].signed_without_unsigned_source = <<>>


----------------------------------------------------------------------------
(* Rates of larger tables (specification SpecRates)                        *)

\* Largest number of rows of a table of SpecRates. Up to this size every quotient
\* success_count / total_rows whose percentage lies midway between two tenths
\* has total_rows = 16, so the float computation of lines 514-515 is exact and
\* the exact rationals of SuccessRate and FailureRate are the floats of the code.
MaxTotalRows == 16

\* A table of n rows with one status column, whose first k rows fail
StatusTable(n, k) ==
    [columns |-> <<"Order Upload Status">>,
     rows |-> [r \in 1..n |->
                 << IF r <= k THEN <<"E", "r", "r", "o", "r">>
                    ELSE <<"D", "o", "n", "e">> >>]]

InitRates ==
    /\ df \in UNION {{StatusTable(n, k) : k \in 0..n} : n \in 1..MaxTotalRows}
    /\ file_name = DefaultFileName
    /\ agency \in Agencies
    /\ utcnow = Today
    /\ analysis = <<>>
    /\ audit_results = <<>>
    /\ paired_results = <<>>
    /\ reconciliation_summary = <<>>
    /\ mask_result = <<>>
    /\ run_days = <<>>
    /\ resolved_config = <<>>
    /\ ServiceIdle
    /\ pc = "loaded"

SpecRates == InitRates /\ [][Next]_vars

\* The number of tenths a reported rate such as "93.8%" stands for
ReportedTenths(text) ==
    ToNat(SelectWhere(text, [i \in 1..Len(text) |-> IsDigit(text[i])]))

\* f"{x:.1f}%" of the exact percentage num/den
TenthsText(num, den) == FormatTenths(RoundHalfEven(10 * num, den))

\* C11: for every table with total_rows > 0 the reported failure_rate is the
\* one-decimal rendering of 100.0 minus the success rate success_count * 100 /
\* total_rows, and the reported success_rate and failure_rate sum to 100.0
\* within 0.1.
C11_RatesSumToHundred ==
    (Analyzed /\ Stats.total_rows > 0) =>
        /\ Stats.success_rate = TenthsText(Stats.success_count * 100, Stats.total_rows)
        /\ Stats.failure_rate =
              TenthsText(100 * Stats.total_rows - Stats.success_count * 100,
                         Stats.total_rows)
        /\ ReportedTenths(Stats.success_rate) + ReportedTenths(Stats.failure_rate)
              \in 999..1001

\* C11 witness: 16 rows of which one fails; both rates lie midway between two
\* tenths (93.75 and 6.25) and are reported as 93.8% and 6.2%.
C11_Witness ==
    /\ Analyzed
    /\ Stats.total_rows = 16 /\ Stats.failure_count = 1
    /\ Stats.success_rate = <<"9", "3", ".", "8", "%">>
    /\ Stats.failure_rate = <<"6", ".", "2", "%">>

----------------------------------------------------------------------------
(* Reason aggregation (specification Spec)                                 *)

Rule == resolve_agency_config(agency)

\* The status columns of the agency rule that the table has
InspectedSet == {c \in Range(Rule.status_columns) : HasColumn(df, c)}

\* The case-insensitive keyword pattern of the agency rule matches the text
MatchesFailurePattern(text) ==
    \E i \in 1..Len(Rule.failure_keywords) :
        Contains(Lower(text), Lower(Rule.failure_keywords[i]))

\* The rows that hold the trimmed value v in column c
RowsHolding(c, v) == {r \in 1..Len(df.rows) : CellText(df, r, c) = v}

\* The identifiers of a set of rows, in row order
IdentifiersInRowOrder(rows) ==
    SelectWhere([r \in 1..Len(df.rows) |-> RowIdentifier(df, r)],
                [r \in 1..Len(df.rows) |-> r \in rows])

\* C12: for every agency rule and table, a value that matches the failure
\* pattern, occurs in one inspected status column other than Remarks and in no
\* other inspected column, and is held there by exactly k (failing) rows, has
\* count k in failure_reason_counts and is mapped in failure_details to exactly
\* those k rows' identifiers, each once, in row order.
C12_ReasonCountedOncePerRow ==
    Analyzed =>
        \A c \in InspectedSet \ {"Remarks"} :
            \A r \in 1..Len(df.rows) :
                LET v == CellText(df, r, c)
                IN  (/\ v # <<>>
                     /\ MatchesFailurePattern(v)
                     /\ \A other \in InspectedSet \ {c} : RowsHolding(other, v) = {})
                    => /\ v \in DOMAIN Stats.failure_reason_counts
                       /\ Stats.failure_reason_counts[v] = Cardinality(RowsHolding(c, v))
                       /\ v \in DOMAIN Stats.failure_details
                       /\ Stats.failure_details[v] =
                             IdentifiersInRowOrder(RowsHolding(c, v))

\* The statement of C12 for the rules whose status columns are pairwise distinct
C12_HoldsWithoutRepeatedColumn ==
    (\A i, j \in 1..Len(Rule.status_columns) :
        Rule.status_columns[i] = Rule.status_columns[j] => i = j)
    => C12_ReasonCountedOncePerRow

\* C13: for every table with rows, the two reason-collection passes agree: the
\* keys of failure_details are the keys of failure_reason_counts and the
\* members of unique_failure_reasons, and every reason has as many identifiers
\* in failure_details as its count in failure_reason_counts.
C13_PassesAgree ==
    (Analyzed /\ Len(df.rows) > 0) =>
        /\ DOMAIN Stats.failure_details = DOMAIN Stats.failure_reason_counts
        /\ DOMAIN Stats.failure_details = Range(Stats.unique_failure_reasons)
        /\ \A v \in DOMAIN Stats.failure_details :
              Len(Stats.failure_details[v]) = Stats.failure_reason_counts[v]

\* C13 witness: a row that fails through its remark "Failed" while its upload
\* status "Done" does not match the pattern, and another row whose upload
\* status "Error" matches: the reasons of both passes are Failed and Error.
C13_Witness ==
    /\ Analyzed
    /\ HasColumn(df, "Remarks") /\ HasColumn(df, "Order Upload Status")
    /\ \E r \in 1..Len(df.rows) :
          /\ CellText(df, r, "Remarks") = <<"F", "a", "i", "l", "e", "d">>
          /\ CellText(df, r, "Order Upload Status") = <<"D", "o", "n", "e">>
    /\ DOMAIN Stats.failure_details =
          {<<"F", "a", "i", "l", "e", "d">>, <<"E", "r", "r", "o", "r">>}
    /\ DOMAIN Stats.failure_reason_counts = DOMAIN Stats.failure_details

----------------------------------------------------------------------------
(* The failure mask of a table (specification SpecMask)                    *)

\* build_failure_mask(df, agency_config["failure_keywords"],
\*                    agency_config["status_columns"])
BuildFailureMask ==
    /\ pc = "loaded"
    /\ mask_result' =
          <<build_failure_mask(df, resolve_agency_config(agency).failure_keywords,
                               resolve_agency_config(agency).status_columns)>>
    /\ pc' = "masked"
    /\ UNCHANGED <<df, file_name, agency, utcnow, analysis, audit_results,
                   paired_results, reconciliation_summary, run_days, resolved_config,
                   service_vars>>

NextMask == BuildFailureMask

SpecMask == Init /\ [][NextMask]_vars

Masked == pc = "masked"
Mask == mask_result[1].mask
Inspected == mask_result[1].inspected_columns

\* The positions in the rule's status columns of the columns the table has
PresentStatusPositions ==
    {i \in 1..Len(Rule.status_columns) : HasColumn(df, Rule.status_columns[i])}

\* The k-th smallest member of a set of numbers
KthOf(S, k) == CHOOSE i \in S : Cardinality({j \in S : j <= i}) = k

\* C14: a row is marked failing iff the case-insensitive keyword pattern
\* matches the text of a status column the table has or the whole-row text
\* (all values, a missing one as the empty text, joined by single spaces);
\* absent status columns are skipped; the inspected columns are the status
\* columns the table has, in rule order; for a zero-row table the mask and the
\* inspected columns are empty.
C14_MaskIffStatusOrRowTextMatches ==
    Masked =>
        /\ Len(df.rows) = 0 => Mask = <<>> /\ Inspected = <<>>
        /\ Len(df.rows) > 0 =>
              /\ Len(Mask) = Len(df.rows)
              /\ \A r \in 1..Len(df.rows) :
                    Mask[r] <=>
                        \/ \E c \in InspectedSet :
                              MatchesFailurePattern(FillNa(df.rows[r][ColIndex(df, c)]))
                        \/ MatchesFailurePattern(RowText(df, r))
              /\ Len(Inspected) = Cardinality(PresentStatusPositions)
              /\ \A k \in 1..Len(Inspected) :
                    Inspected[k] = Rule.status_columns[KthOf(PresentStatusPositions, k)]

\* C14 witness: under the axxess rule a table without any status column whose
\* first row holds "non da" in the Patient column: the row fails through the
\* whole-row text alone, the second row does not fail.
C14_Witness ==
    /\ Masked
    /\ agency = <<"A", "x", "x", "e", "s", "s">>
    /\ df.columns = <<"Patient", "Document Id">>
    /\ Inspected = <<>>
    /\ Mask = <<TRUE, FALSE>>

----------------------------------------------------------------------------
(* File names (specification SpecNames)                                    *)

\* Largest number of parts of a file name of SpecNames
MaxNameParts == 4

NameParts ==
    { <<"X">>, <<"_">>,
      <<"_", "S", "i", "g", "n", "e", "d">>,
      <<"_", "U", "N", "S", "I", "G", "N", "E", "D">>,
      <<"O", "r", "d", "e", "r">>,
      <<"O", "r", "d", "e", "r", "T", "e", "m", "p", "l", "a", "t", "e">>,
      <<".", "c", "s", "v">>,
      <<".", "x", "l", "s", "x">> }

\* The file names made of n parts
RECURSIVE NamesOf(_)
NamesOf(n) ==
    IF n = 0 THEN {<<>>}
    ELSE {front \o part : front \in NamesOf(n - 1), part \in NameParts}

FileNames == UNION {NamesOf(n) : n \in 0..MaxNameParts}

InitNames ==
    /\ df = TableAB
    /\ file_name \in FileNames
    /\ agency = <<"A", "c", "m", "e">>
    /\ utcnow = Today
    /\ analysis = <<>>
    /\ audit_results = <<>>
    /\ paired_results = <<>>
    /\ reconciliation_summary = <<>>
    /\ mask_result = <<>>
    /\ run_days = <<>>
    /\ resolved_config = <<>>
    /\ ServiceIdle
    /\ pc = "loaded"

SpecNames == InitNames /\ [][Next]_vars

\* The lower-cased file name contains the word
NameHas(word) ==
    \E i \in 1..Len(file_name) :
        /\ i + Len(word) - 1 <= Len(file_name)
        /\ \A j \in 1..Len(word) : LowerChar(file_name[i + j - 1]) = word[j]

\* C15: determine_template_type returns "unsigned" whenever the lower-cased
\* file name contains "unsigned", "signed" when it contains "signed" but not
\* "unsigned", and "mixed" otherwise; it returns one of these three values.
C15_TemplateTypeUnsignedFirst ==
    Analyzed =>
        /\ NameHas(UNSIGNED) => analysis[1].template_type = UNSIGNED
        /\ (NameHas(SIGNED) /\ ~NameHas(UNSIGNED)) => analysis[1].template_type = SIGNED
        /\ (~NameHas(SIGNED) /\ ~NameHas(UNSIGNED)) => analysis[1].template_type = MIXED
        /\ analysis[1].template_type \in {SIGNED, UNSIGNED, MIXED}

\* C15 witness: "X_Signed_UNSIGNED.csv" holds "signed" before "unsigned" and is
\* classified unsigned.
C15_Witness ==
    /\ Analyzed
    /\ file_name = <<"X", "_", "S", "i", "g", "n", "e", "d",
                     "_", "U", "N", "S", "I", "G", "N", "E", "D", ".", "c", "s", "v">>
    /\ analysis[1].template_type = UNSIGNED

\* The marker occurs in the lower-cased base name at position i
MarkerAt(lowered, marker, i) ==
    /\ i >= 1
    /\ i + Len(marker) - 1 <= Len(lowered)
    /\ SubSeq(lowered, i, i + Len(marker) - 1) = marker

\* The positions at which the marker occurs in the lower-cased base name
MarkerPositions(lowered, marker) ==
    {i \in 1..Len(lowered) : MarkerAt(lowered, marker, i)}

\* text is prefix without its trailing '-', '_' and ' '
IsStrippedOf(text, prefix) ==
    /\ Len(text) <= Len(prefix)
    /\ text = SubSeq(prefix, 1, Len(text))
    /\ text # <<>> => text[Len(text)] \notin {"-", "_", " "}
    /\ \A i \in (Len(text) + 1)..Len(prefix) : prefix[i] \in {"-", "_", " "}

\* What C16 says of the key of a base name, given where each marker occurs
PairKeyAsClaimed(key, base, positions) ==
    /\ (\A m \in 1..Len(PAIR_MARKERS) : positions[m] = {}) => key = base
    /\ \A m \in 1..Len(PAIR_MARKERS) :
          (positions[m] # {} /\ \A k \in 1..(m - 1) : positions[k] = {})
          => \E i \in positions[m] :
                /\ \A j \in positions[m] : i <= j
                /\ \/ /\ key # base
                      /\ key # <<>>
                      /\ IsStrippedOf(key, SubSeq(base, 1, i - 1))
                   \/ /\ key = base
                      /\ \/ IsStrippedOf(<<>>, SubSeq(base, 1, i - 1))
                         \/ IsStrippedOf(base, SubSeq(base, 1, i - 1))

\* C16: derive_pair_key removes the extension, takes the first marker of the
\* ordered list that occurs case-insensitively in the base name (list order
\* wins), truncates the base name at that marker's first occurrence and strips
\* trailing '-', '_' and space; an empty result gives the untouched base name,
\* and so does a base name without any marker. "X_SignedOrderTemplate.csv"
\* and "X_UNSIGNED.xlsx" both yield "X".
C16_PairKeyCutAtFirstListedMarker ==
    Analyzed =>
        /\ PairKeyAsClaimed(analysis[1].pair_key, SplitExtBase(file_name),
              [m \in 1..Len(PAIR_MARKERS) |->
                  MarkerPositions(Lower(SplitExtBase(file_name)), PAIR_MARKERS[m])])
        /\ file_name = <<"X", "_", "S", "i", "g", "n", "e", "d", "O", "r", "d", "e", "r",
                         "T", "e", "m", "p", "l", "a", "t", "e", ".", "c", "s", "v">>
              => analysis[1].pair_key = <<"X">>
        /\ file_name = <<"X", "_", "U", "N", "S", "I", "G", "N", "E", "D",
                         ".", "x", "l", "s", "x">>
              => analysis[1].pair_key = <<"X">>

\* C16 witness: "X_UNSIGNED_SignedOrder" holds the marker _unsigned before the
\* marker _signedorder, which is earlier in the list: the key is cut at
\* _signedorder and is "X_UNSIGNED".
C16_Witness ==
    /\ Analyzed
    /\ file_name = <<"X", "_", "U", "N", "S", "I", "G", "N", "E", "D",
                     "_", "S", "i", "g", "n", "e", "d", "O", "r", "d", "e", "r">>
    /\ analysis[1].pair_key = <<"X", "_", "U", "N", "S", "I", "G", "N", "E", "D">>

----------------------------------------------------------------------------
(* SLA metrics (specification Spec)                                        *)

Sla == Stats.sla_metrics

BothDateColumns ==
    HasColumn(df, SENT_TO_PHYSICIAN_COLUMN) /\ HasColumn(df, SIGNATURE_COLUMN)

\* The day a row's cell of a date column stands for, <<>> when it has none
DayOf(r, column) == ParseDate(df.rows[r][ColIndex(df, column)])

\* The rows in which both dates parse
RowsWithBothDates ==
    {r \in 1..Len(df.rows) :
        DayOf(r, SENT_TO_PHYSICIAN_COLUMN) # <<>> /\ DayOf(r, SIGNATURE_COLUMN) # <<>>}

DaysToSign(r) == DayOf(r, SIGNATURE_COLUMN)[1] - DayOf(r, SENT_TO_PHYSICIAN_COLUMN)[1]

\* C17: all four SLA fields are null if either date column is absent. With
\* both columns present, average, max and min are non-null exactly when some
\* row has two dates that parse, are computed over those rows only, and then
\* min_days_to_sign <= average_days_to_sign <= max_days_to_sign (the average
\* being in hundredths of a day); a row with an unparsable date is dropped.
C17_SlaNullWithoutColumnsAndOrdered ==
    Analyzed =>
        /\ ~BothDateColumns =>
              /\ Sla.average_days_to_sign = <<>>
              /\ Sla.max_days_to_sign = <<>>
              /\ Sla.min_days_to_sign = <<>>
              /\ Sla.pending_overdue_count = <<>>
        /\ BothDateColumns =>
              /\ Sla.average_days_to_sign # <<>> <=> RowsWithBothDates # {}
              /\ Sla.max_days_to_sign # <<>> <=> RowsWithBothDates # {}
              /\ Sla.min_days_to_sign # <<>> <=> RowsWithBothDates # {}
              /\ RowsWithBothDates # {} =>
                    /\ Sla.max_days_to_sign[1] \in {DaysToSign(r) : r \in RowsWithBothDates}
                    /\ Sla.min_days_to_sign[1] \in {DaysToSign(r) : r \in RowsWithBothDates}
                    /\ \A r \in RowsWithBothDates :
                          /\ Sla.min_days_to_sign[1] <= DaysToSign(r)
                          /\ DaysToSign(r) <= Sla.max_days_to_sign[1]
                    /\ 100 * Sla.min_days_to_sign[1] <= Sla.average_days_to_sign[1]
                    /\ Sla.average_days_to_sign[1] <= 100 * Sla.max_days_to_sign[1]

\* C17 witness: one row sent on day 6 and signed on day 8, another row sent on
\* day 7 whose signed date does not parse: the latency of the first row alone
\* gives average 2.00, max 2 and min 2.
C17_Witness ==
    /\ Analyzed
    /\ BothDateColumns
    /\ RowsWithBothDates = {1}
    /\ Len(df.rows) = 2
    /\ DayOf(2, SENT_TO_PHYSICIAN_COLUMN) = <<7>>
    /\ df.rows[2][ColIndex(df, SIGNATURE_COLUMN)] = <<"n", "a">>
    /\ Sla.average_days_to_sign = <<200>>
    /\ Sla.max_days_to_sign = <<2>>
    /\ Sla.min_days_to_sign = <<2>>

\* The rows that were sent and have no signed date
PendingRows ==
    {r \in 1..Len(df.rows) :
        DayOf(r, SENT_TO_PHYSICIAN_COLUMN) # <<>> /\ DayOf(r, SIGNATURE_COLUMN) = <<>>}

\* C18: with both date columns present, pending_overdue_count is the number of
\* rows whose sent date parses, whose signed date is absent or unparsable and
\* whose age in whole days (now minus sent date) is strictly greater than the
\* threshold of 5 days; it is 0, not null, without such a row, and is reported
\* also when there is no latency data.
C18_PendingOverdueCount ==
    (Analyzed /\ BothDateColumns) =>
        Sla.pending_overdue_count =
            <<Cardinality({r \in PendingRows :
                 utcnow - DayOf(r, SENT_TO_PHYSICIAN_COLUMN)[1]
                     > PENDING_OVERDUE_THRESHOLD_DAYS})>>

\* C18 witness: two unsigned rows sent 6 and 5 days ago and no latency data:
\* only the row sent 6 days ago is overdue.
C18_Witness ==
    /\ Analyzed
    /\ BothDateColumns
    /\ PendingRows = {1, 2}
    /\ utcnow - DayOf(1, SENT_TO_PHYSICIAN_COLUMN)[1] = 6
    /\ utcnow - DayOf(2, SENT_TO_PHYSICIAN_COLUMN)[1] = 5
    /\ Sla.average_days_to_sign = <<>>
    /\ Sla.pending_overdue_count = <<1>>

(***************************************************************************)
(* Repeated analysis of one table while the clock advances.  run_audit      *)
(* appends every analyze_file result to audit_results (main.py 1109-1128);  *)
(* here the same unmodified table is analysed up to twice, and the clock    *)
(* read by compute_sla_metrics (main.py 462) may advance between the runs.  *)
(***************************************************************************)
MaxDaysPassed == 1

ClockTables ==
    TablesOf(<<"Sent To Physician Date", "Signed By Physician Date">>)
        \cup TablesOf(<<"Patient", "Signed By Physician Date">>)

InitClock ==
    /\ df \in ClockTables
    /\ file_name = <<"X", ".", "c", "s", "v">>
    /\ agency \in Agencies
    /\ utcnow = Today
    /\ analysis = <<>>
    /\ audit_results = <<>>
    /\ paired_results = <<>>
    /\ reconciliation_summary = <<>>
    /\ mask_result = <<>>
    /\ run_days = <<>>
    /\ resolved_config = <<>>
    /\ ServiceIdle
    /\ pc = "loaded"

\* One more pass of the loop body of run_audit over the same file (main.py 1117, 1128).
RunAnalysis ==
    /\ Len(audit_results) < 2
    /\ audit_results' = Append(audit_results, analyze_file(df, file_name, agency, utcnow))
    /\ run_days' = Append(run_days, utcnow)
    /\ UNCHANGED <<df, file_name, agency, utcnow, analysis, paired_results,
                   reconciliation_summary, mask_result, resolved_config, pc,
                   service_vars>>

\* A day passes: datetime.utcnow() (main.py 462) returns a later day from now on.
Tick ==
    /\ utcnow < Today + MaxDaysPassed
    /\ utcnow' = utcnow + 1
    /\ UNCHANGED <<df, file_name, agency, analysis, audit_results, paired_results,
                   reconciliation_summary, mask_result, run_days, resolved_config, pc,
                   service_vars>>

NextClock == RunAnalysis \/ Tick

SpecClock == InitClock /\ [][NextClock]_vars

WithoutPendingOverdue(stats) ==
    [stats EXCEPT !.sla_metrics.pending_overdue_count = <<>>]

SameApartFromPendingOverdue(a, b) ==
    /\ [a EXCEPT !.stats = WithoutPendingOverdue(a.stats)]
         = [b EXCEPT !.stats = WithoutPendingOverdue(b.stats)]

\* C19 as stated: two analyses of the same unmodified table, file name and agency
\* give identical FileStats, sla_metrics included, however much time passed
\* between the two runs.
C19_RunsIdenticalWhateverTimePasses ==
    \A i \in 1..Len(audit_results) : \A j \in 1..Len(audit_results) :
        audit_results[i].stats = audit_results[j].stats

\* The runs differ in nothing but sla_metrics.pending_overdue_count, and not in
\* that field either when both read the same day from the clock.
C19_RunsIdenticalApartFromPendingOverdue ==
    \A i \in 1..Len(audit_results) : \A j \in 1..Len(audit_results) :
        /\ SameApartFromPendingOverdue(audit_results[i], audit_results[j])
        /\ run_days[i] = run_days[j] => audit_results[i] = audit_results[j]

C19_TwoRunsADayApart ==
    /\ Len(audit_results) = 2
    /\ run_days = <<Today, Today + 1>>
    /\ df.columns = <<"Sent To Physician Date", "Signed By Physician Date">>
    /\ df.rows = << <<<<"7">>, NaN>>, <<<<"6">>, <<"8">>>> >>
    /\ audit_results[1].stats.sla_metrics.pending_overdue_count = <<0>>
    /\ audit_results[2].stats.sla_metrics.pending_overdue_count = <<1>>
    /\ audit_results[1].stats.sla_metrics.average_days_to_sign = <<200>>
    /\ audit_results[2].stats.sla_metrics.average_days_to_sign = <<200>>

(***************************************************************************)
(* Pairs whose files carry many failure reasons.  A batch holds at most one *)
(* unsigned and one signed file of the same agency and base name; every row *)
(* of their tables fails with the reason in its Remarks cell.               *)
(***************************************************************************)
MaxReasonRows == 3

Reason(d) == <<"E", "r", "r", "o", "r", " ", d>>

ReasonTexts == {Reason(d) : d \in {"1", "2", "3", "4", "5", "6"}}

ReasonTable(reasons) ==
    [columns |-> <<"Remarks">>, rows |-> [r \in 1..Len(reasons) |-> <<reasons[r]>>]]

\* Every list of up to MaxReasonRows reasons
ShortReasonLists == UNION {[1..n -> ReasonTexts] : n \in 1..MaxReasonRows}

\* A few lists that share reasons with the short ones and exceed five reasons
LongReasonLists ==
    { <<Reason("4")>>,
      <<Reason("1"), Reason("4")>>,
      <<Reason("4"), Reason("1"), Reason("5"), Reason("6")>>,
      <<Reason("6"), Reason("5"), Reason("4"), Reason("3"), Reason("2"), Reason("1")>> }

UnsignedOf(reasons) ==
    analyze_file(ReasonTable(reasons), <<"p">> \o UnsignedSuffix, <<"X">>, Today)

SignedOf(reasons) ==
    analyze_file(ReasonTable(reasons), <<"p">> \o SignedSuffix, <<"X">>, Today)

ReasonBatches ==
    {<<UnsignedOf(u)>> : u \in ShortReasonLists}
        \cup {<<SignedOf(s)>> : s \in ShortReasonLists}
        \cup {<<UnsignedOf(u), SignedOf(s)>> : u \in ShortReasonLists, s \in LongReasonLists}
        \cup {<<SignedOf(s), UnsignedOf(u)>> : u \in LongReasonLists, s \in ShortReasonLists}

InitReasons ==
    /\ df = EmptyTable
    /\ file_name = <<>>
    /\ agency = <<>>
    /\ utcnow = Today
    /\ analysis = <<>>
    /\ audit_results \in ReasonBatches
    /\ paired_results = <<>>
    /\ reconciliation_summary = <<>>
    /\ mask_result = <<>>
    /\ run_days = <<>>
    /\ resolved_config = <<>>
    /\ ServiceIdle
    /\ pc = "analyzed_all"

SpecReasons == InitReasons /\ [][NextFold]_vars

\* Positions of a list at which a value occurs for the first time
FirstOccurrences(c) == {i \in 1..Len(c) : \A j \in 1..(i - 1) : c[j] # c[i]}

DominantAsClaimed(dominant, unsigned_reasons, concatenated, first) ==
    /\ Len(dominant) <= 5
    /\ Len(dominant) = IF Cardinality(first) < 5 THEN Cardinality(first) ELSE 5
    /\ \A k \in 1..Len(dominant) : dominant[k] = concatenated[KthOf(first, k)]
    /\ \A i \in 1..Len(dominant) : \A j \in 1..Len(dominant) :
          /\ i # j => dominant[i] # dominant[j]
          /\ (i < j /\ dominant[i] \notin Range(unsigned_reasons))
                => dominant[j] \notin Range(unsigned_reasons)

\* C20: dominant_failure_reasons of a pair is the first five of the reasons of
\* the unsigned slot followed by those of the signed slot, each kept at its first
\* occurrence: at most five entries, no duplicates, and no reason that only the
\* signed side has before a reason of the unsigned side.
C20_DominantReasonsUnsignedFirstCappedAtFive ==
    Folded =>
        \A i \in 1..Len(paired_results) :
            DominantAsClaimed(paired_results[i].combined_summary.dominant_failure_reasons,
                              SlotReasons(paired_results[i].unsigned),
                              SlotReasons(paired_results[i].unsigned)
                                  \o SlotReasons(paired_results[i].signed),
                              FirstOccurrences(SlotReasons(paired_results[i].unsigned)
                                  \o SlotReasons(paired_results[i].signed)))

C20_Witness ==
    /\ Folded
    /\ Len(paired_results) = 1
    /\ SlotReasons(paired_results[1].unsigned) = <<Reason("1"), Reason("2"), Reason("3")>>
    /\ SlotReasons(paired_results[1].signed)
          = <<Reason("4"), Reason("1"), Reason("5"), Reason("6")>>
    /\ paired_results[1].combined_summary.dominant_failure_reasons
          = <<Reason("1"), Reason("2"), Reason("3"), Reason("4"), Reason("5")>>

(***************************************************************************)
(* The collection of failing values (Spec)                                  *)
(***************************************************************************)

\* The places the frequency pass collects from: <<0, r>> is the Remarks cell of
\* row r, <<i, r>> the cell of row r in the i-th inspected column.
Slots(t, mask, inspected) ==
    {s \in (0..Len(inspected)) \X (1..Len(t.rows)) :
        /\ mask[s[2]]
        /\ IF s[1] = 0
           THEN HasColumn(t, "Remarks") /\ CellText(t, s[2], "Remarks") # <<>>
           ELSE /\ inspected[s[1]] # "Remarks"
                /\ HasColumn(t, inspected[s[1]])
                /\ CellText(t, s[2], inspected[s[1]]) # <<>>
                /\ MatchesFailurePattern(CellText(t, s[2], inspected[s[1]]))}

SlotText(t, inspected, s) ==
    CellText(t, s[2], IF s[1] = 0 THEN "Remarks" ELSE inspected[s[1]])

\* Remarks first, then the inspected columns in their order; rows in row order
SlotBefore(a, b) == a[1] < b[1] \/ (a[1] = b[1] /\ a[2] < b[2])

FirstSlotOf(t, inspected, slots, v) ==
    CHOOSE s \in slots :
        /\ SlotText(t, inspected, s) = v
        /\ \A o \in slots : SlotText(t, inspected, o) = v => (o = s \/ SlotBefore(s, o))

ReasonsAsClaimed(unique, counts, t, inspected, slots) ==
    /\ \A i, j \in 1..Len(unique) : unique[i] = unique[j] => i = j
    /\ Range(unique) = {SlotText(t, inspected, s) : s \in slots}
    /\ \A i, j \in 1..Len(unique) :
          i < j => SlotBefore(FirstSlotOf(t, inspected, slots, unique[i]),
                              FirstSlotOf(t, inspected, slots, unique[j]))
    /\ DOMAIN counts = Range(unique)
    /\ \A v \in DOMAIN counts :
          counts[v] = Cardinality({s \in slots : SlotText(t, inspected, s) = v})
    /\ SumSeq([k \in 1..Len(unique) |-> counts[unique[k]]]) = Cardinality(slots)

\* C21: unique_failure_reasons lists, without duplicates and in first-seen
\* order, the collected failing values: the Remarks of the failing rows in row
\* order, then the matching values of each other inspected column in
\* inspected-column order; failure_reason_counts counts the occurrences in the
\* same collection, so its keys are the members of unique_failure_reasons and
\* its counts sum to the length of the collection.
C21_ReasonsAndCountsOfOneCollection ==
    Analyzed =>
        ReasonsAsClaimed(Stats.unique_failure_reasons, Stats.failure_reason_counts, df,
                         Stats.inspected_status_columns,
                         Slots(df,
                               build_failure_mask(df, Rule.failure_keywords,
                                                  Rule.status_columns).mask,
                               Stats.inspected_status_columns))

\* C21 witness: the first row fails with the remark "Failed" and the status
\* "Error", the second with the status "Error" alone.
C21_Witness ==
    /\ Analyzed
    /\ agency = <<"A", "c", "m", "e">>
    /\ df.columns = <<"OrderId", "Remarks", "Order Upload Status">>
    /\ Len(df.rows) = 2
    /\ Stats.unique_failure_reasons
          = << <<"F", "a", "i", "l", "e", "d">>, <<"E", "r", "r", "o", "r">> >>
    /\ Stats.failure_reason_counts[<<"F", "a", "i", "l", "e", "d">>] = 1
    /\ Stats.failure_reason_counts[<<"E", "r", "r", "o", "r">>] = 2

(***************************************************************************)
(* Failing rows with several identifier columns.  Every row of the tables   *)
(* fails through its remark "Failed".                                       *)
(***************************************************************************)
MaxDetailRows == 2

FailedRemark == <<"F", "a", "i", "l", "e", "d", " ">>

\* Rows <<Order Number, OrderId, Document Id, Remarks>>
DetailRows ==
    {<<n, o, d, FailedRemark>> :
        n \in CellDomain("Order Number"), o \in CellDomain("OrderId"),
        d \in CellDomain("Document Id")}

DetailTables ==
    {[columns |-> <<"Order Number", "OrderId", "Document Id", "Remarks">>, rows |-> rs] :
        rs \in UNION {[1..n -> DetailRows] : n \in 0..MaxDetailRows}}
    \cup
    {[columns |-> <<"Order Number", "Remarks">>, rows |-> rs] :
        rs \in UNION {[1..n -> {<<o, FailedRemark>> : o \in CellDomain("Order Number")}] :
                        n \in 1..MaxDetailRows}}

InitDetails ==
    /\ df \in DetailTables
    /\ file_name = DefaultFileName
    /\ agency \in Agencies
    /\ utcnow = Today
    /\ analysis = <<>>
    /\ audit_results = <<>>
    /\ paired_results = <<>>
    /\ reconciliation_summary = <<>>
    /\ mask_result = <<>>
    /\ run_days = <<>>
    /\ resolved_config = <<>>
    /\ ServiceIdle
    /\ pc = "loaded"

SpecDetails == InitDetails /\ [][Next]_vars

PriorityOrder == <<"OrderId", "Order Number", "Document Id">>

\* The column is present and the row holds a value in it that is not blank
HoldsValue(t, r, column) ==
    /\ HasColumn(t, column)
    /\ t.rows[r][ColIndex(t, column)] # NaN
    /\ Strip(t.rows[r][ColIndex(t, column)]) # <<>>

IdentifierAsClaimed(identifier, t, r) ==
    \/ \E i \in 1..Len(PriorityOrder) :
          /\ HoldsValue(t, r, PriorityOrder[i])
          /\ \A j \in 1..(i - 1) : ~HoldsValue(t, r, PriorityOrder[j])
          /\ identifier = Strip(t.rows[r][ColIndex(t, PriorityOrder[i])])
    \/ /\ \A i \in 1..Len(PriorityOrder) : ~HoldsValue(t, r, PriorityOrder[i])
       /\ identifier = <<"R", "o", "w", " ">> \o Digits((r - 1) + 2)

\* C22: the identifier the detail pass gives a failing row is the trimmed value
\* of the first of OrderId, Order Number, Document Id that the table has and
\* that holds a non-blank value in that row, and "Row N" with N the 0-based
\* position of the row plus 2 when there is none.
C22_DisplayIdentifierByPriority ==
    (Analyzed /\ Len(df.rows) > 0) =>
        /\ DOMAIN Stats.failure_details = {Strip(FailedRemark)}
        /\ Len(Stats.failure_details[Strip(FailedRemark)]) = Len(df.rows)
        /\ \A r \in 1..Len(df.rows) :
              IdentifierAsClaimed(Stats.failure_details[Strip(FailedRemark)][r], df, r)

\* C22 witness: the first row has a blank OrderId and the Order Number "N7",
\* the second has no identifier at all and is labelled "Row 3".
C22_Witness ==
    /\ Analyzed
    /\ df.columns = <<"Order Number", "OrderId", "Document Id", "Remarks">>
    /\ df.rows = << <<<<"N", "7">>, <<" ">>, <<"D", "3">>, FailedRemark>>,
                    <<<<>>, NaN, NaN, FailedRemark>> >>
    /\ Stats.failure_details[Strip(FailedRemark)]
          = << <<"N", "7">>, <<"R", "o", "w", " ", "3">> >>

(***************************************************************************)
(* Lookup of the agency rule                                                *)
(***************************************************************************)

\* Every way of writing a lower-case word in upper and lower case
RECURSIVE CaseVariants(_)
CaseVariants(word) ==
    IF word = <<>> THEN {<<>>}
    ELSE {<<ch>> \o rest :
            ch \in {Head(word)} \cup
                   {UpperChars[k] : k \in {j \in 1..Len(LowerChars) : LowerChars[j] = Head(word)}},
            rest \in CaseVariants(Tail(word))}

\* Names that are no key of the registry
UnregisteredNames ==
    { <<>>, <<"A", "c", "m", "e">>, <<"U", "n", "k", "n", "o", "w", "n">>,
      <<"k", "i", "n", "n", "s", "e", "r", " ">>, <<" ", "a", "x", "x", "e", "s", "s">>,
      <<"K", "i", "n", "n">>, <<"A", "x", "x", "e", "s", "s", "2">>,
      <<"L", "u", "n", "a", " ", "V", "i", "s", "t", "a">> }

AgencyNames ==
    UNION {CaseVariants(k) : k \in DOMAIN AGENCY_CONFIG} \cup UnregisteredNames

InitAgencies ==
    /\ df = EmptyTable
    /\ file_name = DefaultFileName
    /\ agency \in AgencyNames
    /\ utcnow = Today
    /\ analysis = <<>>
    /\ audit_results = <<>>
    /\ paired_results = <<>>
    /\ reconciliation_summary = <<>>
    /\ mask_result = <<>>
    /\ run_days = <<>>
    /\ resolved_config = <<>>
    /\ ServiceIdle
    /\ pc = "loaded"

\* agency_config = resolve_agency_config(agency), line 591
ResolveAgencyConfig ==
    /\ pc = "loaded"
    /\ resolved_config' = <<resolve_agency_config(agency)>>
    /\ pc' = "resolved"
    /\ UNCHANGED <<df, file_name, agency, utcnow, analysis, audit_results,
                   paired_results, reconciliation_summary, mask_result, run_days,
                   service_vars>>

NextAgencies == ResolveAgencyConfig

SpecAgencies == InitAgencies /\ [][NextAgencies]_vars

Resolved == pc = "resolved"

\* The two texts differ at most in the case of their letters
SameIgnoringCase(a, b) ==
    /\ Len(a) = Len(b)
    /\ \A i \in 1..Len(a) :
          \/ a[i] = b[i]
          \/ \E k \in 1..Len(UpperChars) :
                {a[i], b[i]} = {UpperChars[k], LowerChars[k]}

RegisteredAs(a) == {k \in DOMAIN AGENCY_CONFIG : SameIgnoringCase(a, k)}

\* C23: an agency name that is a registered key up to the case of its letters
\* resolves to that key's rule, so all spellings of one key resolve to the same
\* rule; every other name resolves to the default rule (default failure
\* keywords, default status columns); a rule is returned for every name.
C23_CaseInsensitiveLookupWithDefault ==
    Resolved =>
        /\ Len(resolved_config) = 1
        /\ \A k \in RegisteredAs(agency) : resolved_config[1] = AGENCY_CONFIG[k]
        /\ RegisteredAs(agency) = {} =>
              /\ resolved_config[1].failure_keywords = DEFAULT_FAILURE_KEYWORDS
              /\ resolved_config[1].status_columns = DEFAULT_STATUS_COLUMNS

\* C23 witness: "KiNnSeR" resolves to the kinnser rule, whose status columns are
\* the default ones and "Order Upload Status" once more.
C23_Witness ==
    /\ Resolved
    /\ agency = <<"K", "i", "N", "n", "S", "e", "R">>
    /\ resolved_config[1].status_columns = DEFAULT_STATUS_COLUMNS \o <<"Order Upload Status">>
    /\ resolved_config[1].failure_keywords = DEFAULT_FAILURE_KEYWORDS

(***************************************************************************)
(* Completeness of the analysis record (Spec)                               *)
(***************************************************************************)
FileAnalysisFields ==
    {"agency", "ehr", "file_name", "template_type", "pair_key", "stats",
     "unique_failure_reasons", "failure_reason_counts", "order_ids"}

FileStatsFields ==
    {"total_rows", "success_rate", "failure_rate", "signed_count", "unsigned_count",
     "failure_count", "success_count", "unique_failure_reasons", "failure_reason_counts",
     "failure_details", "inspected_status_columns", "sla_metrics"}

SlaMetricsFields ==
    {"average_days_to_sign", "max_days_to_sign", "min_days_to_sign",
     "pending_overdue_count"}

CompleteAnalysis(a, t) ==
    /\ DOMAIN a = FileAnalysisFields
    /\ DOMAIN a.stats = FileStatsFields
    /\ DOMAIN a.stats.sla_metrics = SlaMetricsFields
    /\ a.stats.total_rows = Len(t.rows)
    /\ (\A i \in 1..Len(IDENTIFIER_COLUMNS) : ~HasColumn(t, IDENTIFIER_COLUMNS[i]))
          => a.order_ids = {}
    /\ (\A c \in Range(t.columns) : c \notin Range(DEFAULT_STATUS_COLUMNS))
          => /\ a.stats.inspected_status_columns = <<>>
             /\ a.stats.unique_failure_reasons = <<>>
             /\ DOMAIN a.stats.failure_reason_counts = {}
    /\ (~HasColumn(t, SIGNATURE_COLUMN) \/ ~HasColumn(t, SENT_TO_PHYSICIAN_COLUMN))
          => \A f \in SlaMetricsFields : a.stats.sla_metrics[f] = <<>>
    /\ Len(t.rows) = 0
          => /\ a.stats.failure_count = 0 /\ a.stats.success_count = 0
             /\ a.stats.signed_count = 0 /\ a.stats.unsigned_count = 0

\* C24: analyze_file returns a complete FileAnalysis for every table and agency:
\* every field of the analysis, of its stats and of its SLA metrics is there,
\* with null, zero or empty values for a table without rows, without status,
\* identifier or date columns, with missing or blank cells or unparsable dates,
\* and for an unrecognized agency.
C24_CompleteAnalysisForEveryInput ==
    Analyzed =>
        /\ Len(analysis) = 1
        /\ CompleteAnalysis(analysis[1], df)

\* The statement of C24 for the tables that have rows
C24_HoldsForTablesWithRows ==
    Len(df.rows) > 0 => C24_CompleteAnalysisForEveryInput

(***************************************************************************)
(* run_audit: the files of one Drive folder are listed, downloaded and      *)
(* analysed one after the other; the results are saved, paired, reconciled, *)
(* notified and saved as a batch.                                           *)
(***************************************************************************)

EHR_PREFIXES ==
    << <<"a", "x", "x", "e", "s", "s">>, <<"k", "i", "n", "n", "s", "e", "r">>, <<"a", "t", "h", "e", "n", "a">>, <<"w", "e", "l", "l", "s", "k", "y">>, <<"h", "c", "h", "b">> >>

\* The pattern (?:Axxess|Kinnser|Athena|WellSky|HCHB)-([^_]+), re.IGNORECASE,
\* matches at position i with the k-th prefix
PrefixMatchAt(name, i, k) ==
    /\ i + Len(EHR_PREFIXES[k]) + 1 <= Len(name)
    /\ Lower(SubSeq(name, i, i + Len(EHR_PREFIXES[k]) - 1)) = EHR_PREFIXES[k]
    /\ name[i + Len(EHR_PREFIXES[k])] = "-"
    /\ name[i + Len(EHR_PREFIXES[k]) + 1] # "_"

\* The longest run of characters other than "_" that starts at position i
RECURSIVE RunWithoutUnderscore(_, _)
RunWithoutUnderscore(name, i) ==
    IF i > Len(name) \/ name[i] = "_" THEN <<>>
    ELSE <<name[i]>> \o RunWithoutUnderscore(name, i + 1)

\* str.replace('-', ' ')
HyphensToSpaces(s) == [i \in 1..Len(s) |-> IF s[i] = "-" THEN " " ELSE s[i]]

\* The places <<i, k>> at which re.search can match
PrefixMatches(name) ==
    {m \in (1..Len(name)) \X (1..Len(EHR_PREFIXES)) : PrefixMatchAt(name, m[1], m[2])}

\* match.group(1) of the leftmost match
FirstGroup(name, matches) ==
    RunWithoutUnderscore(name,
        (CHOOSE m \in matches : \A o \in matches : m[1] <= o[1])[1]
            + Len(EHR_PREFIXES[(CHOOSE m \in matches : \A o \in matches : m[1] <= o[1])[2]])
            + 1)

AgencyFromMatches(name, matches) ==
    IF matches # {} THEN HyphensToSpaces(FirstGroup(name, matches))
    ELSE infer_ehr_from_filename(name)

infer_agency_from_filename(name) == AgencyFromMatches(name, PrefixMatches(name))

\* The row save_run inserts into audit_runs for one analysis
AuditRunRow(timestamp, folder, entry) ==
    [timestamp |-> timestamp,
     folder_id |-> folder,
     agency |-> entry.agency,
     file_name |-> entry.file_name,
     total_rows |-> entry.stats.total_rows,
     success_rate_tenths |-> ReportedTenths(entry.stats.success_rate),
     failure_rate_tenths |-> ReportedTenths(entry.stats.failure_rate),
     success_count |-> entry.stats.success_count,
     failure_count |-> entry.stats.failure_count,
     signed_count |-> entry.stats.signed_count,
     unsigned_count |-> entry.stats.unsigned_count,
     unique_failure_reasons |-> entry.unique_failure_reasons,
     failure_reason_counts |-> entry.failure_reason_counts]

\* The dictionary run_audit returns
AuditResult(timestamp, analyses, pairs, reconciliation) ==
    [status |-> "success",
     audit_timestamp |-> timestamp,
     audit_results |-> analyses,
     paired_results |-> pairs,
     reconciliation_summary |-> reconciliation]

HTTPException(status_code, detail) ==
    [kind |-> "HTTPException", status_code |-> status_code, detail |-> detail]

OtherException(detail) == [kind |-> "Exception", detail |-> detail]

\* run_audit leaves with an exception
Raise(exception) ==
    /\ raised' = <<exception>>
    /\ pc' = "audit_raised"

\* get_drive_service and fetch_order_files
FetchOrderFiles ==
    /\ pc = "audit_start"
    /\ \/ /\ listings[folder_id[1]].drive = "credentials_missing"
          /\ Raise(HTTPException(500, "credentials missing"))
          /\ UNCHANGED <<files, audit_results>>
       \/ /\ listings[folder_id[1]].drive = "http_error"
          /\ Raise(HTTPException(502, "Google Drive API error"))
          /\ UNCHANGED <<files, audit_results>>
       \/ /\ listings[folder_id[1]].drive = "other_error"
          /\ Raise(OtherException("Drive request failed"))
          /\ UNCHANGED <<files, audit_results>>
       \/ /\ listings[folder_id[1]].drive = "ok"
          /\ listings[folder_id[1]].files = <<>>
          /\ files' = <<>>
          /\ Raise(HTTPException(404, "No OrderTemplate files found in the provided folder."))
          /\ UNCHANGED audit_results
       \/ /\ listings[folder_id[1]].drive = "ok"
          /\ listings[folder_id[1]].files # <<>>
          /\ files' = listings[folder_id[1]].files
          /\ audit_results' = <<>>
          /\ pc' = "audit_loop"
          /\ UNCHANGED raised
    /\ UNCHANGED <<df, file_name, agency, utcnow, analysis, paired_results,
                   reconciliation_summary, mask_result, run_days, resolved_config,
                   folder_ids, listings, folder_index, folder_id, calls, audit_runs,
                   audit_batches, batch_summary, requests, request_index, bulk_results,
                   runs>>

\* Faulty variant: the newest analysis is put in front.
PutInFront(list, entry) == <<entry>> \o list

\* audit_results.append(analysis), line 1128
Appended(list, entry) == Append(list, entry)

\* Faulty variant: every analysis is saved as soon as it is made.
ProcessFileSavingEachRun ==
    /\ pc = "audit_loop"
    /\ Len(audit_results) < Len(files)
    /\ file_name' = files[Len(audit_results) + 1].name
    /\ \/ /\ files[Len(audit_results) + 1].fault = "http_error"
          /\ Raise(HTTPException(502, "Failed to download"))
          /\ UNCHANGED <<df, agency, analysis, audit_results, audit_runs, calls>>
       \/ /\ files[Len(audit_results) + 1].fault = "exception"
          /\ Raise(HTTPException(500, "Processing error"))
          /\ UNCHANGED <<df, agency, analysis, audit_results, audit_runs, calls>>
       \/ /\ files[Len(audit_results) + 1].fault = "none"
          /\ df' = files[Len(audit_results) + 1].table
          /\ agency' = infer_agency_from_filename(files[Len(audit_results) + 1].name)
          /\ analysis' = <<analyze_file(files[Len(audit_results) + 1].table,
                                        files[Len(audit_results) + 1].name,
                                        infer_agency_from_filename(
                                            files[Len(audit_results) + 1].name),
                                        utcnow)>>
          /\ audit_results' =
                Appended(audit_results,
                       analyze_file(files[Len(audit_results) + 1].table,
                                    files[Len(audit_results) + 1].name,
                                    infer_agency_from_filename(
                                        files[Len(audit_results) + 1].name),
                                    utcnow))
          /\ audit_runs' =
                Append(audit_runs,
                       AuditRunRow(utcnow, folder_id[1],
                                   analyze_file(files[Len(audit_results) + 1].table,
                                                files[Len(audit_results) + 1].name,
                                                infer_agency_from_filename(
                                                    files[Len(audit_results) + 1].name),
                                                utcnow)))
          /\ calls' = Append(calls, "save_run")
          /\ UNCHANGED <<raised, pc>>
    /\ UNCHANGED <<utcnow, paired_results, reconciliation_summary, mask_result, run_days,
                   resolved_config, folder_ids, listings, folder_index, folder_id, files,
                   audit_batches, batch_summary, requests, request_index, bulk_results,
                   runs>>

\* One pass of the loop over the files: download, load, analyse, append
ProcessFile ==
    /\ pc = "audit_loop"
    /\ Len(audit_results) < Len(files)
    /\ file_name' = files[Len(audit_results) + 1].name
    /\ \/ /\ files[Len(audit_results) + 1].fault = "http_error"
          /\ Raise(HTTPException(502, "Failed to download"))
          /\ UNCHANGED <<df, agency, analysis, audit_results>>
       \/ /\ files[Len(audit_results) + 1].fault = "exception"
          /\ Raise(HTTPException(500, "Processing error"))
          /\ UNCHANGED <<df, agency, analysis, audit_results>>
       \/ /\ files[Len(audit_results) + 1].fault = "none"
          /\ df' = files[Len(audit_results) + 1].table
          /\ agency' = infer_agency_from_filename(files[Len(audit_results) + 1].name)
          /\ analysis' = <<analyze_file(files[Len(audit_results) + 1].table,
                                        files[Len(audit_results) + 1].name,
                                        infer_agency_from_filename(
                                            files[Len(audit_results) + 1].name),
                                        utcnow)>>
          /\ audit_results' =
                Appended(audit_results,
                       analyze_file(files[Len(audit_results) + 1].table,
                                    files[Len(audit_results) + 1].name,
                                    infer_agency_from_filename(
                                        files[Len(audit_results) + 1].name),
                                    utcnow))
          /\ UNCHANGED <<raised, pc>>
    /\ UNCHANGED <<utcnow, paired_results, reconciliation_summary, mask_result, run_days,
                   resolved_config, folder_ids, listings, folder_index, folder_id, files,
                   calls, audit_runs, audit_batches, batch_summary, requests,
                   request_index, bulk_results, runs>>

\* The loop over audit_results that calls history_repository.save_run
SaveRuns ==
    /\ pc = "audit_loop"
    /\ Len(audit_results) = Len(files)
    /\ audit_runs' = audit_runs \o
          [i \in 1..Len(audit_results) |->
              AuditRunRow(utcnow, folder_id[1], audit_results[i])]
    /\ calls' = calls \o [i \in 1..Len(audit_results) |-> "save_run"]
    /\ pc' = "audit_saved"
    /\ UNCHANGED <<df, file_name, agency, utcnow, analysis, audit_results, paired_results,
                   reconciliation_summary, mask_result, run_days, resolved_config,
                   folder_ids, listings, folder_index, folder_id, files, audit_batches,
                   raised, batch_summary, requests, request_index, bulk_results, runs>>

\* build_pair_results and build_reconciliation_summary
PairAndReconcile ==
    /\ pc = "audit_saved"
    /\ paired_results' = build_pair_results(audit_results)
    /\ reconciliation_summary' = build_reconciliation_summary(audit_results)
    /\ calls' = calls \o <<"build_pair_results", "build_reconciliation_summary">>
    /\ pc' = "audit_folded"
    /\ UNCHANGED <<df, file_name, agency, utcnow, analysis, audit_results, mask_result,
                   run_days, resolved_config, folder_ids, listings, folder_index,
                   folder_id, files, audit_runs, audit_batches, raised, batch_summary,
                   requests, request_index, bulk_results, runs>>

\* send_alerts, send_summary_notification, send_email_summary; a notifier that is
\* not configured or whose delivery fails returns without raising
Notify ==
    /\ pc = "audit_folded"
    /\ calls' = calls \o <<"send_alerts", "send_summary_notification", "send_email_summary">>
    /\ pc' = "audit_notified"
    /\ UNCHANGED <<df, file_name, agency, utcnow, analysis, audit_results, paired_results,
                   reconciliation_summary, mask_result, run_days, resolved_config,
                   folder_ids, listings, folder_index, folder_id, files, audit_runs,
                   audit_batches, raised, batch_summary, requests, request_index,
                   bulk_results, runs>>

\* history_repository.save_batch and the return of the result
SaveBatch ==
    /\ pc = "audit_notified"
    /\ audit_batches' =
          Append(audit_batches,
                 [timestamp |-> utcnow, folder_id |-> folder_id[1],
                  full_result |-> AuditResult(utcnow, audit_results, paired_results,
                                              reconciliation_summary)])
    /\ calls' = Append(calls, "save_batch")
    /\ pc' = "audit_returned"
    /\ UNCHANGED <<df, file_name, agency, utcnow, analysis, audit_results, paired_results,
                   reconciliation_summary, mask_result, run_days, resolved_config,
                   folder_ids, listings, folder_index, folder_id, files, audit_runs,
                   raised, batch_summary, requests, request_index, bulk_results, runs>>

NextAudit ==
    \/ FetchOrderFiles
    \/ ProcessFile
    \/ SaveRuns
    \/ PairAndReconcile
    \/ Notify
    \/ SaveBatch

\* --- the folders of an audit ---

MaxListed == 2

SignedP == <<"A", "x", "x", "e", "s", "s", "-", "X", "_", "p", "_", "S", "i", "g", "n", "e", "d", "O", "r", "d", "e", "r", "T", "e", "m", "p", "l", "a", "t", "e", ".", "c", "s", "v">>
UnsignedP == <<"A", "x", "x", "e", "s", "s", "-", "X", "_", "p", "_", "U", "n", "s", "i", "g", "n", "e", "d", "O", "r", "d", "e", "r", "T", "e", "m", "p", "l", "a", "t", "e", ".", "c", "s", "v">>
SignedQ == <<"A", "x", "x", "e", "s", "s", "-", "X", "_", "q", "_", "S", "i", "g", "n", "e", "d", "O", "r", "d", "e", "r", "T", "e", "m", "p", "l", "a", "t", "e", ".", "c", "s", "v">>
MixedP == <<"K", "i", "n", "n", "s", "e", "r", "-", "Y", "-", "Z", "_", "p", "_", "O", "r", "d", "e", "r", "T", "e", "m", "p", "l", "a", "t", "e", ".", "c", "s", "v">>

Faults == {"none", "http_error", "exception"}

\* The files a folder can hold: a name, the table the download gives, and
\* whether the download or the analysis fails
ListedFiles ==
    {[name |-> c[1], table |-> c[2], fault |-> f] :
        c \in {<<SignedP, TableAB>>, <<UnsignedP, TableBC>>,
               <<SignedQ, TableBC>>, <<MixedP, TableAB>>},
        f \in Faults}

Listings ==
    {[drive |-> d, files |-> <<>>] :
        d \in {"credentials_missing", "http_error", "other_error"}}
    \cup {[drive |-> "ok", files |-> fs] :
            fs \in UNION {[1..n -> ListedFiles] : n \in 0..MaxListed}}

TheFolder == <<"F", "1">>

InitAudit ==
    /\ df = EmptyTable
    /\ file_name = <<>>
    /\ agency = <<>>
    /\ utcnow = Today
    /\ analysis = <<>>
    /\ audit_results = <<>>
    /\ paired_results = <<>>
    /\ reconciliation_summary = <<>>
    /\ mask_result = <<>>
    /\ run_days = <<>>
    /\ resolved_config = <<>>
    /\ folder_ids = <<>>
    /\ listings \in [{TheFolder} -> Listings]
    /\ folder_index = 0
    /\ folder_id = <<TheFolder>>
    /\ files = <<>>
    /\ calls = <<>>
    /\ audit_runs = <<>>
    /\ audit_batches = <<>>
    /\ raised = <<>>
    /\ batch_summary = <<>>
    /\ requests = <<>>
    /\ request_index = 0
    /\ bulk_results = <<>>
    /\ runs = <<>>
    /\ pc = "audit_start"

SpecAudit == InitAudit /\ [][NextAudit]_vars

Paired == pc \in {"audit_folded", "audit_notified", "audit_returned"}

\* The (agency, pair key) of the files in the order of the listing
ListedKeys(listing) ==
    [i \in 1..Len(listing) |->
        <<infer_agency_from_filename(listing[i].name), derive_pair_key(listing[i].name)>>]

PairsInListingOrder(pairs, keys, first) ==
    /\ Len(pairs) = Cardinality(first)
    /\ \A k \in 1..Len(pairs) : PairKeyOf(pairs[k]) = keys[KthOf(first, k)]

\* C25: build_pair_results and build_reconciliation_summary are called only
\* when every listed file has been analysed; they get the analyses in the order
\* of the listing, so the pair results follow the order in which the keys first
\* occur in the listing.
C25_FoldAfterAllFilesInListingOrder ==
    /\ "build_pair_results" \in Range(calls) \/ "build_reconciliation_summary" \in Range(calls)
          => /\ Len(audit_results) = Len(files)
             /\ \A i \in 1..Len(files) : audit_results[i].file_name = files[i].name
    /\ Paired
          => /\ "build_pair_results" \in Range(calls)
             /\ PairsInListingOrder(paired_results, ListedKeys(files),
                                    FirstOccurrences(ListedKeys(files)))
             /\ reconciliation_summary = build_reconciliation_summary(audit_results)

\* C25 witness: the q file is listed before the p file, and so are the pairs.
C25_Witness ==
    /\ Paired
    /\ Len(files) = 2
    /\ files[1].name = SignedQ
    /\ files[2].name = UnsignedP
    /\ Len(paired_results) = 2
    /\ paired_results[1].pair_key = <<"A", "x", "x", "e", "s", "s", "-", "X", "_", "q">>
    /\ paired_results[2].pair_key = <<"A", "x", "x", "e", "s", "s", "-", "X", "_", "p">>
    /\ paired_results[1].agency = <<"X">>

\* The stage of run_audit a call belongs to
StageOf(call) ==
    CASE call = "save_run" -> 1
      [] call \in {"build_pair_results", "build_reconciliation_summary"} -> 2
      [] call \in {"send_alerts", "send_summary_notification", "send_email_summary"} -> 3
      [] call = "save_batch" -> 4

CallsOf(log, stage) == {i \in 1..Len(log) : StageOf(log[i]) = stage}

\* C26: a run that a failing download or analysis ends has saved no audit_runs
\* row and no batch and has sent no alert, summary or email; a run that succeeds
\* has saved one row per file before pairing, has notified after pairing and
\* reconciliation, and has saved the batch last.
C26_AllOrNothingAndOrderOfEffects ==
    /\ pc = "audit_raised"
          => /\ audit_runs = <<>>
             /\ audit_batches = <<>>
             /\ calls = <<>>
    /\ \A i \in 1..Len(calls) : \A j \in 1..Len(calls) :
          i < j => StageOf(calls[i]) <= StageOf(calls[j])
    /\ pc = "audit_returned"
          => /\ raised = <<>>
             /\ Len(audit_runs) = Len(files)
             /\ Cardinality(CallsOf(calls, 1)) = Len(files)
             /\ Cardinality(CallsOf(calls, 2)) = 2
             /\ Cardinality(CallsOf(calls, 3)) = 3
             /\ calls[Len(calls)] = "save_batch"
             /\ Len(audit_batches) = 1

\* C26 witness: the first file was analysed, the second failed, and nothing was
\* saved or sent.
C26_Witness ==
    /\ pc = "audit_raised"
    /\ Len(files) = 2
    /\ Len(audit_results) = 1
    /\ files[2].fault = "exception"
    /\ raised[1].status_code = 500
    /\ audit_runs = <<>>
    /\ calls = <<>>

(***************************************************************************)
(* run_batch_audit: run_audit for one folder after the other                *)
(***************************************************************************)

\* The next pass of the loop over folder_ids calls run_audit
BatchNext ==
    /\ pc = "batch_loop"
    /\ folder_index < Len(folder_ids)
    /\ folder_index' = folder_index + 1
    /\ folder_id' = <<folder_ids[folder_index + 1]>>
    /\ files' = <<>>
    /\ audit_results' = <<>>
    /\ paired_results' = <<>>
    /\ reconciliation_summary' = <<>>
    /\ raised' = <<>>
    /\ pc' = "audit_start"
    /\ UNCHANGED <<df, file_name, agency, utcnow, analysis, mask_result, run_days,
                   resolved_config, folder_ids, listings, calls, audit_runs,
                   audit_batches, batch_summary, requests, request_index, bulk_results,
                   runs>>

\* batch_summary.append({"folder_id": folder_id, "result": result})
BatchAppendResult ==
    /\ pc = "audit_returned"
    /\ batch_summary' =
          Append(batch_summary,
                 [folder_id |-> folder_id[1],
                  result |-> AuditResult(utcnow, audit_results, paired_results,
                                         reconciliation_summary)])
    /\ pc' = "batch_loop"
    /\ UNCHANGED <<df, file_name, agency, utcnow, analysis, audit_results, paired_results,
                   reconciliation_summary, mask_result, run_days, resolved_config,
                   folder_ids, listings, folder_index, folder_id, files, calls,
                   audit_runs, audit_batches, raised, requests, request_index,
                   bulk_results, runs>>

\* Faulty variant: the loop ends at the first folder whose audit fails.
BatchAppendErrorAndStop ==
    /\ pc = "audit_raised"
    /\ raised[1].kind = "HTTPException"
    /\ batch_summary' =
          Append(batch_summary, [folder_id |-> folder_id[1], error |-> raised[1].detail])
    /\ raised' = <<>>
    /\ pc' = "batch_returned"
    /\ UNCHANGED <<df, file_name, agency, utcnow, analysis, audit_results, paired_results,
                   reconciliation_summary, mask_result, run_days, resolved_config,
                   folder_ids, listings, folder_index, folder_id, files, calls,
                   audit_runs, audit_batches, requests, request_index, bulk_results,
                   runs>>

\* except HTTPException: the error is recorded and the loop continues
BatchAppendError ==
    /\ pc = "audit_raised"
    /\ raised[1].kind = "HTTPException"
    /\ batch_summary' =
          Append(batch_summary, [folder_id |-> folder_id[1], error |-> raised[1].detail])
    /\ raised' = <<>>
    /\ pc' = "batch_loop"
    /\ UNCHANGED <<df, file_name, agency, utcnow, analysis, audit_results, paired_results,
                   reconciliation_summary, mask_result, run_days, resolved_config,
                   folder_ids, listings, folder_index, folder_id, files, calls,
                   audit_runs, audit_batches, requests, request_index, bulk_results,
                   runs>>

\* Any other exception leaves run_batch_audit as well
BatchPropagate ==
    /\ pc = "audit_raised"
    /\ raised[1].kind # "HTTPException"
    /\ pc' = "batch_raised"
    /\ UNCHANGED <<df, file_name, agency, utcnow, analysis, audit_results, paired_results,
                   reconciliation_summary, mask_result, run_days, resolved_config,
                   folder_ids, listings, folder_index, folder_id, files, calls,
                   audit_runs, audit_batches, raised, batch_summary, requests,
                   request_index, bulk_results, runs>>

\* return {"status": "completed", "batch": batch_summary}
BatchReturn ==
    /\ pc = "batch_loop"
    /\ folder_index = Len(folder_ids)
    /\ pc' = "batch_returned"
    /\ UNCHANGED <<df, file_name, agency, utcnow, analysis, audit_results, paired_results,
                   reconciliation_summary, mask_result, run_days, resolved_config,
                   folder_ids, listings, folder_index, folder_id, files, calls,
                   audit_runs, audit_batches, raised, batch_summary, requests,
                   request_index, bulk_results, runs>>

NextBatch ==
    \/ BatchNext
    \/ NextAudit
    \/ BatchAppendResult
    \/ BatchAppendError
    \/ BatchPropagate
    \/ BatchReturn

MaxFolders == 2

Folders == {<<"F", "1">>, <<"F", "2">>}

BatchListings ==
    { [drive |-> "credentials_missing", files |-> <<>>],
      [drive |-> "http_error", files |-> <<>>],
      [drive |-> "other_error", files |-> <<>>],
      [drive |-> "ok", files |-> <<[name |-> MixedP, table |-> TableAB, fault |-> "exception"]>>],
      [drive |-> "ok", files |-> <<>>],
      [drive |-> "ok", files |-> <<[name |-> SignedP, table |-> TableAB, fault |-> "none"]>>],
      [drive |-> "ok",
       files |-> <<[name |-> UnsignedP, table |-> TableBC, fault |-> "none"],
                   [name |-> SignedP, table |-> TableAB, fault |-> "http_error"]>>] }

InitBatch ==
    /\ df = EmptyTable
    /\ file_name = <<>>
    /\ agency = <<>>
    /\ utcnow = Today
    /\ analysis = <<>>
    /\ audit_results = <<>>
    /\ paired_results = <<>>
    /\ reconciliation_summary = <<>>
    /\ mask_result = <<>>
    /\ run_days = <<>>
    /\ resolved_config = <<>>
    /\ folder_ids \in UNION {[1..n -> Folders] : n \in 0..MaxFolders}
    /\ listings \in [Folders -> BatchListings]
    /\ folder_index = 0
    /\ folder_id = <<>>
    /\ files = <<>>
    /\ calls = <<>>
    /\ audit_runs = <<>>
    /\ audit_batches = <<>>
    /\ raised = <<>>
    /\ batch_summary = <<>>
    /\ requests = <<>>
    /\ request_index = 0
    /\ bulk_results = <<>>
    /\ runs = <<>>
    /\ pc = "batch_loop"

SpecBatch == InitBatch /\ [][NextBatch]_vars

\* run_audit raises an HTTPException for a folder with this listing
AuditFails(listing) ==
    \/ listing.drive \in {"credentials_missing", "http_error"}
    \/ listing.drive = "ok" /\ listing.files = <<>>
    \/ listing.drive = "ok" /\ \E i \in 1..Len(listing.files) : listing.files[i].fault # "none"

\* The positions of folder_ids whose audit succeeds
AuditedPositions == {i \in 1..Len(folder_ids) : ~AuditFails(listings[folder_ids[i]])}

\* C27: when run_batch_audit returns, the batch has one entry per folder id, in
\* input order; an entry holds a result or an error, never both; a folder whose
\* audit raised an HTTPException has an error entry; every folder after it was
\* audited all the same, so each folder whose audit succeeds has its result
\* entry and its saved batch.
C27_OneEntryPerFolderInOrder ==
    pc = "batch_returned" =>
        /\ Len(batch_summary) = Len(folder_ids)
        /\ \A i \in 1..Len(folder_ids) :
              /\ batch_summary[i].folder_id = folder_ids[i]
              /\ \/ DOMAIN batch_summary[i] = {"folder_id", "result"}
                 \/ DOMAIN batch_summary[i] = {"folder_id", "error"}
              /\ AuditFails(listings[folder_ids[i]])
                    <=> "error" \in DOMAIN batch_summary[i]
        /\ Len(audit_batches) = Cardinality(AuditedPositions)
        /\ \A k \in 1..Len(audit_batches) :
              audit_batches[k].folder_id = folder_ids[KthOf(AuditedPositions, k)]

\* C27 witness: the audit of the first folder fails with 404, the second folder
\* is audited and its result recorded.
C27_Witness ==
    /\ pc = "batch_returned"
    /\ folder_ids = <<<<"F", "1">>, <<"F", "2">>>>
    /\ "error" \in DOMAIN batch_summary[1]
    /\ batch_summary[1].error = "No OrderTemplate files found in the provided folder."
    /\ "result" \in DOMAIN batch_summary[2]
    /\ Len(batch_summary[2].result.audit_results) = 1
    /\ Len(audit_batches) = 1

(***************************************************************************)
(* Pairing against reconciliation (SpecFold)                                *)
(***************************************************************************)

\* No analysis is mixed and no two analyses have the same agency, pair key and side
DistinctSlotsNoMixed(batch) ==
    /\ \A i \in 1..Len(batch) : batch[i].template_type \in {SIGNED, UNSIGNED}
    /\ \A i, j \in 1..Len(batch) :
          (/\ KeyOf(batch[i]) = KeyOf(batch[j])
           /\ batch[i].template_type = batch[j].template_type) => i = j

PendingOfPairs(pairs, a) ==
    UNION {Range(pairs[k].combined_summary.pending_signature_orders) :
             k \in {i \in 1..Len(pairs) : pairs[i].agency = a}}

\* C28: in a batch without mixed files in which no two analyses share agency,
\* pair key and side, every identifier that the reconciliation of an agency
\* reports as pending is pending in one of that agency's pair results.
C28_ReconciliationPendingWithinPairs ==
    (Folded /\ DistinctSlotsNoMixed(audit_results)) =>
        \A e \in 1..Len(reconciliation_summary) :
            Range(reconciliation_summary[e].pending_signature_orders)
                \subseteq PendingOfPairs(paired_results, reconciliation_summary[e].agency)

\* C28 witness: agency X has the unsigned file p with B and C and the signed file
\* q with A and B; C is pending for the agency and for the pair p, where B is
\* pending as well.
C28_Witness ==
    /\ Folded
    /\ DistinctSlotsNoMixed(audit_results)
    /\ Len(audit_results) = 2
    /\ Len(paired_results) = 2
    /\ Len(reconciliation_summary) = 1
    /\ reconciliation_summary[1].pending_signature_orders = << <<"C">> >>
    /\ paired_results[1].combined_summary.pending_signature_orders = << <<"B">>, <<"C">> >>

(***************************************************************************)
(* Failure details against the order identifiers (SpecDetails)              *)
(***************************************************************************)

\* The labels the detail pass gives rows without a usable identifier
RowLabels(t) == {<<"R", "o", "w", " ">> \o Digits((r - 1) + 2) : r \in 1..Len(t.rows)}

ListedInDetails(details) ==
    UNION {Range(details[reason]) : reason \in DOMAIN details}

\* C29: every identifier listed in failure_details that is not a "Row N" label
\* is a member of order_ids of the same analysis.
C29_DetailIdentifiersAreOrderIds ==
    (Analyzed /\ Len(df.rows) > 0) =>
        ListedInDetails(Stats.failure_details) \ RowLabels(df) \subseteq OrderIds

\* With a single identifier column both passes read the same column and the
\* inclusion holds.
C29_HoldsWithOneIdentifierColumn ==
    (Analyzed /\ Len(df.rows) > 0
       /\ Cardinality({i \in 1..Len(PriorityOrder) : HasColumn(df, PriorityOrder[i])}) = 1) =>
        ListedInDetails(Stats.failure_details) \ RowLabels(df) \subseteq OrderIds

(***************************************************************************)
(* Ingestion of pushed runs: _persist_run, ingest_run, ingest_runs_bulk     *)
(*                                                                         *)
(* A success rate is a number of hundredths of a percent in a stored       *)
(* document and a number of thousandths in a request.  A request is a      *)
(* RunIngestRequest that passed validation: its counts are not negative    *)
(* and a supplied success_rate lies between 0 and 100.                     *)
(***************************************************************************)

RemarkLimit == 200

\* Faulty variant: the comparison of the two counts is left out.
ProcessedNeverExceedsTotal(request) == FALSE

\* if orders_processed > orders_total
ProcessedExceedsTotal(request) == request.orders_processed > request.orders_total

\* computed_success in hundredths: the supplied rate or the share of processed
\* orders, rounded to two decimals and kept within 0 and 100
ComputedSuccess(request) ==
    LET rounded ==
            IF request.success_rate # <<>>
            THEN RoundHundredths(request.success_rate[1], 1000)
            ELSE IF request.orders_total > 0
                 THEN RoundHundredths(100 * request.orders_processed, request.orders_total)
                 ELSE 0
        capped == IF rounded < 10000 THEN rounded ELSE 10000
    IN  IF capped > 0 THEN capped ELSE 0

\* (request.remark or "").strip(), cut to 200 characters
StoredRemark(request) ==
    LET remark == Strip(IF request.remark = <<>> THEN <<>> ELSE request.remark[1])
    IN  IF Len(remark) > RemarkLimit THEN SubSeq(remark, 1, RemarkLimit) ELSE remark

RunDoc(request, now) ==
    [bot_id |-> request.bot_id,
     timestamp |-> "SERVER_TIMESTAMP",
     timestamp_iso |-> now,
     run_date |-> IF request.run_date = <<>> \/ request.run_date = << <<>> >>
                  THEN <<>> ELSE request.run_date,
     bot_type |-> request.bot_type,
     ehr |-> request.ehr,
     agency |-> request.agency,
     orders_total |-> request.orders_total,
     orders_processed |-> request.orders_processed,
     orders_unsigned |-> IF request.orders_total - request.orders_processed > 0
                         THEN request.orders_total - request.orders_processed ELSE 0,
     success_rate |-> ComputedSuccess(request),
     remark |-> StoredRemark(request),
     source |-> "push",
     meta |-> <<>>]

\* if request.orders
HasOrders(request) == request.orders # <<>> /\ request.orders[1] # <<>>

\* The document an order is written to: its order_id, or a generated id
OrderDocument(order, i) ==
    IF order.order_id # <<>> /\ order.order_id[1] # <<>>
    THEN order.order_id[1]
    ELSE <<"a", "u", "t", "o", "-">> \o Digits(i)

\* order.dict() with created_at; ehr and agency are keys of order.dict()
\* already, so setdefault leaves them as they are
OrderPayload(order) ==
    [field \in DOMAIN order \cup {"created_at"} |->
        IF field = "created_at" THEN <<"SERVER_TIMESTAMP">> ELSE order[field]]

\* The documents the batch writes: a later order replaces an earlier one
\* written to the same document
OrderDocs(orders) ==
    [document \in {OrderDocument(orders[i], i) : i \in 1..Len(orders)} |->
        LET last == CHOOSE i \in 1..Len(orders) :
                        /\ OrderDocument(orders[i], i) = document
                        /\ \A j \in (i + 1)..Len(orders) :
                              OrderDocument(orders[j], j) # document
        IN  OrderPayload(orders[last])]

\* _persist_run: the exception it raises or the result it returns, and the
\* collection after it.  fault names the Firestore call that fails, if any.
persist_run(collection, request, fault, now) ==
    LET run_id == Len(collection) + 1
        stored(orders) == Append(collection, [id |-> run_id, doc |-> RunDoc(request, now),
                                              orders |-> orders])
    IN  IF ProcessedExceedsTotal(request)
        THEN [raised |-> <<HTTPException(400, "orders_processed cannot exceed orders_total.")>>,
              result |-> <<>>, runs |-> collection]
        ELSE IF fault = "set_error"
        THEN [raised |-> <<OtherException("run_ref.set")>>, result |-> <<>>,
              runs |-> collection]
        ELSE IF HasOrders(request) /\ fault = "commit_error"
        THEN [raised |-> <<OtherException("batch.commit")>>, result |-> <<>>,
              runs |-> stored(<<>>)]
        ELSE [raised |-> <<>>,
              result |-> <<[status |-> "ok", run_id |-> run_id]>>,
              runs |-> stored(IF HasOrders(request) THEN OrderDocs(request.orders[1])
                              ELSE <<>>)]

\* POST /api/rpa/runs
IngestRun ==
    /\ pc = "ingest_run"
    /\ LET out == persist_run(runs, requests[1].body, requests[1].fault, utcnow)
       IN  /\ runs' = out.runs
           /\ raised' = out.raised
           /\ bulk_results' = out.result
           /\ pc' = IF out.raised = <<>> THEN "ingest_returned" ELSE "ingest_raised"
    /\ UNCHANGED <<df, file_name, agency, utcnow, analysis, audit_results, paired_results,
                   reconciliation_summary, mask_result, run_days, resolved_config,
                   folder_ids, listings, folder_index, folder_id, files, calls,
                   audit_runs, audit_batches, batch_summary, requests, request_index>>

\* results.append(_persist_run(client, req))
BulkAppendResult ==
    /\ pc = "bulk_loop"
    /\ request_index < Len(requests)
    /\ LET req == requests[request_index + 1]
           out == persist_run(runs, req.body, req.fault, utcnow)
       IN  /\ out.raised = <<>>
           /\ runs' = out.runs
           /\ bulk_results' = Append(bulk_results, out.result[1])
    /\ request_index' = request_index + 1
    /\ UNCHANGED <<df, file_name, agency, utcnow, analysis, audit_results, paired_results,
                   reconciliation_summary, mask_result, run_days, resolved_config,
                   folder_ids, listings, folder_index, folder_id, files, calls,
                   audit_runs, audit_batches, raised, batch_summary, requests, pc>>

\* except HTTPException: the error is recorded and the loop continues
BulkAppendError ==
    /\ pc = "bulk_loop"
    /\ request_index < Len(requests)
    /\ LET req == requests[request_index + 1]
           out == persist_run(runs, req.body, req.fault, utcnow)
       IN  /\ out.raised # <<>>
           /\ out.raised[1].kind = "HTTPException"
           /\ runs' = out.runs
           /\ bulk_results' =
                 Append(bulk_results, [status |-> "error", detail |-> out.raised[1].detail,
                                       bot_id |-> req.body.bot_id])
    /\ request_index' = request_index + 1
    /\ UNCHANGED <<df, file_name, agency, utcnow, analysis, audit_results, paired_results,
                   reconciliation_summary, mask_result, run_days, resolved_config,
                   folder_ids, listings, folder_index, folder_id, files, calls,
                   audit_runs, audit_batches, raised, batch_summary, requests, pc>>

\* An exception of another type leaves ingest_runs_bulk
BulkPropagate ==
    /\ pc = "bulk_loop"
    /\ request_index < Len(requests)
    /\ LET req == requests[request_index + 1]
           out == persist_run(runs, req.body, req.fault, utcnow)
       IN  /\ out.raised # <<>>
           /\ out.raised[1].kind # "HTTPException"
           /\ runs' = out.runs
           /\ raised' = out.raised
    /\ pc' = "bulk_raised"
    /\ UNCHANGED <<df, file_name, agency, utcnow, analysis, audit_results, paired_results,
                   reconciliation_summary, mask_result, run_days, resolved_config,
                   folder_ids, listings, folder_index, folder_id, files, calls,
                   audit_runs, audit_batches, batch_summary, requests, request_index,
                   bulk_results>>

\* return {"status": "ok", "results": results}
BulkReturn ==
    /\ pc = "bulk_loop"
    /\ request_index = Len(requests)
    /\ pc' = "bulk_returned"
    /\ UNCHANGED <<df, file_name, agency, utcnow, analysis, audit_results, paired_results,
                   reconciliation_summary, mask_result, run_days, resolved_config,
                   service_vars>>

NextIngest ==
    \/ IngestRun
    \/ BulkAppendResult
    \/ BulkAppendError
    \/ BulkPropagate
    \/ BulkReturn

MaxOrders == 3
MaxRequests == 2

Request(bot_id, total, processed, rate, remark, run_date, orders) ==
    [bot_id |-> bot_id, orders_total |-> total, orders_processed |-> processed,
     success_rate |-> rate, bot_type |-> <<>>, ehr |-> <<<<"A", "x", "x", "e", "s", "s">>>>, agency |-> <<>>,
     run_date |-> run_date, remark |-> remark, orders |-> orders]

Order(order_id, status) ==
    [order_id |-> order_id, status |-> <<status>>, reason |-> <<>>, ehr |-> <<>>,
     agency |-> <<>>, received_at |-> <<>>, processed_at |-> <<>>]

Filler(n) == [i \in 1..n |-> "x"]

\* Requests that differ in their counts, and requests with two of five orders
\* processed that differ in one other field
RequestBodies ==
    {Request(<<"b", "o", "t", "-", "a">>, total, processed, <<>>, <<>>, <<>>, <<>>) :
        total \in 0..MaxOrders, processed \in 0..MaxOrders}
    \cup {Request(<<"b", "o", "t", "-", "b">>, 1, 2, <<>>, <<>>, <<>>, <<>>)}
    \cup {Request(<<"b", "o", "t", "-", "b">>, 5, 2, <<rate>>, <<>>, <<>>, <<>>) :
            rate \in {0, 12344, 50000, 99996, 100000}}
    \cup {Request(<<"b", "o", "t", "-", "b">>, 5, 2, <<>>, <<remark>>, <<>>, <<>>) :
            remark \in {<<>>, <<" ", "l", "a", "t", "e", " ">>, Filler(RemarkLimit), Filler(RemarkLimit + 1),
                        <<" ">> \o Filler(RemarkLimit) \o <<" ">>}}
    \cup {Request(<<"b", "o", "t", "-", "b">>, 5, 2, <<>>, <<>>, run_date, <<>>) :
            run_date \in {<< <<>> >>, <<<<"0", "1", "/", "2", "1", "/", "2", "0", "2", "5">>>>}}
    \cup {Request(<<"b", "o", "t", "-", "b">>, 5, 2, <<>>, <<>>, <<>>, orders) :
            orders \in {<< <<>> >>,
                        << <<Order(<<<<"o", "1">>>>, "failed"), Order(<<>>, "success"),
                             Order(<<<<"o", "1">>>>, "signed")>> >>}}

IngestRequests ==
    {[body |-> body, fault |-> "none"] : body \in RequestBodies}
    \cup {[body |-> Request(<<"b", "o", "t", "-", "b">>, 5, 2, <<>>, <<>>, <<>>, <<>>), fault |-> "set_error"],
          [body |-> Request(<<"b", "o", "t", "-", "b">>, 5, 2, <<>>, <<>>, <<>>,
                            << <<Order(<<<<"o", "1">>>>, "failed")>> >>),
           fault |-> "commit_error"]}

InitIngest ==
    /\ df = EmptyTable
    /\ file_name = <<>>
    /\ agency = <<>>
    /\ utcnow = Today
    /\ analysis = <<>>
    /\ audit_results = <<>>
    /\ paired_results = <<>>
    /\ reconciliation_summary = <<>>
    /\ mask_result = <<>>
    /\ run_days = <<>>
    /\ resolved_config = <<>>
    /\ folder_ids = <<>>
    /\ listings = <<>>
    /\ folder_index = 0
    /\ folder_id = <<>>
    /\ files = <<>>
    /\ calls = <<>>
    /\ audit_runs = <<>>
    /\ audit_batches = <<>>
    /\ raised = <<>>
    /\ batch_summary = <<>>
    /\ requests \in UNION {[1..n -> IngestRequests] : n \in 0..MaxRequests}
    /\ request_index = 0
    /\ bulk_results = <<>>
    /\ runs = <<>>
    /\ pc \in IF Len(requests) = 1 THEN {"ingest_run", "bulk_loop"} ELSE {"bulk_loop"}

SpecIngest == InitIngest /\ [][NextIngest]_vars

\* The stored document is what the claim says of an accepted request
DocAsClaimed(doc, request) ==
    /\ 0 <= doc.success_rate /\ doc.success_rate <= 10000
    /\ request.success_rate = <<>> =>
          IF request.orders_total = 0 THEN doc.success_rate = 0
          ELSE LET off == doc.success_rate * request.orders_total
                              - 10000 * request.orders_processed
               IN  2 * off <= request.orders_total /\ -2 * off <= request.orders_total
    /\ doc.orders_unsigned = request.orders_total - request.orders_processed
    /\ doc.orders_unsigned >= 0
    /\ Len(doc.remark) <= RemarkLimit

Exceeds(request) == request.orders_processed > request.orders_total

Rejection ==
    [kind |-> "HTTPException", status_code |-> 400,
     detail |-> "orders_processed cannot exceed orders_total."]

ResultAsClaimed(result, request, collection) ==
    IF Exceeds(request)
    THEN result = [status |-> "error", detail |-> Rejection.detail, bot_id |-> request.bot_id]
    ELSE /\ result.status = "ok"
         /\ \E j \in 1..Len(collection) :
               /\ collection[j].id = result.run_id
               /\ DocAsClaimed(collection[j].doc, request)

IngestAsClaimed(position, reqs, n, results, collection, exception) ==
    /\ position \in {"ingest_raised", "ingest_returned"} =>
          IF Exceeds(reqs[1].body)
          THEN position = "ingest_raised" /\ exception = <<Rejection>> /\ collection = <<>>
          ELSE position = "ingest_returned" =>
                  /\ Len(collection) = 1
                  /\ DocAsClaimed(collection[1].doc, reqs[1].body)
    /\ position \in {"bulk_loop", "bulk_returned"} =>
          /\ Len(results) = n
          /\ \A i \in 1..n : ResultAsClaimed(results[i], reqs[i].body, collection)
          /\ Len(collection) = Cardinality({i \in 1..n : ~Exceeds(reqs[i].body)})
    /\ position = "bulk_returned" => n = Len(reqs)

\* C30: _persist_run writes nothing and raises the 400 error when
\* orders_processed exceeds orders_total; the document of an accepted request
\* has a success_rate within 0 and 100 (the share of processed orders when none
\* is supplied, 0 when orders_total is 0), orders_unsigned equal to
\* orders_total - orders_processed and not negative, and a remark of at most 200
\* characters; ingest_runs_bulk returns one result per request in input order
\* and goes on after a rejected request.
C30_RejectionAndStoredRunDocuments ==
    IngestAsClaimed(pc, requests, request_index, bulk_results, runs, raised)

\* C30 witness: the first request of a bulk call has 2 of 1 orders processed and
\* is rejected, the second has 1 of 3 and is stored with 33.33 percent.
C30_Witness ==
    /\ pc = "bulk_returned"
    /\ Len(requests) = 2
    /\ requests[1].body.orders_total = 1 /\ requests[1].body.orders_processed = 2
    /\ requests[2].body.orders_total = 3 /\ requests[2].body.orders_processed = 1
    /\ bulk_results[1].status = "error"
    /\ bulk_results[2] = [status |-> "ok", run_id |-> 1]
    /\ Len(runs) = 1
    /\ runs[1].doc.success_rate = 3333
    /\ runs[1].doc.orders_unsigned = 2

============================================================================
